---- MODULE Spec2Model ----
(***************************************************************************)
(* Update Manager (um): the reconciliation engine (checkAllProviders), the *)
(* update orchestrator (performUpdates), the ignore commands and the       *)
(* persisted configuration they share, as one state machine.               *)
(***************************************************************************)
EXTENDS Integers, Sequences, FiniteSets, TLC

(***************************************************************************)
(* Bounds and the finite universe of the model                             *)
(***************************************************************************)
\* package ids known on the host
PkgIds == {"a", "b"}

\* the versions a manager offers as newVersion (never empty: every parser
\* drops a row whose new version is empty)
NewVersions == {"1.0", "2.0"}

\* provider ids of the registry; "ghost" is an id a config file may carry
\* that the registry does not know
Registered == {"winget", "npm"}
ProviderOrder == <<"winget", "npm", "ghost">>
AllProviderIds == {ProviderOrder[i] : i \in 1..Len(ProviderOrder)}

PackageStatus == {"available", "pinned", "unknown", "error"}

(***************************************************************************)
(* Persisted configuration (config.ts, types.ts)                           *)
(***************************************************************************)
EmptyMap == [k \in {} |-> ""]

DEFAULT_PROVIDERS == [k \in Registered |-> TRUE]

\* keys of a providers map in Object.entries order: the defaults first, then
\* the keys only the file has
KeysInOrder(map) == SelectSeq(ProviderOrder, LAMBDA k : k \in DOMAIN map)

loadConfig(file) ==
  [providers |->
     [k \in (DOMAIN DEFAULT_PROVIDERS) \cup (DOMAIN file.providers) |->
        IF k \in DOMAIN file.providers THEN file.providers[k] ELSE DEFAULT_PROVIDERS[k]],
   ignoredPackages |-> file.ignoredPackages,
   installedVersions |-> file.installedVersions]

getEnabledProviders(file) ==
  LET config == loadConfig(file)
  IN SelectSeq(KeysInOrder(config.providers), LAMBDA k : config.providers[k])

getIgnoredPackages(file) == loadConfig(file).ignoredPackages

getInstalledVersions(file) == loadConfig(file).installedVersions

Includes(seq, x) == \E i \in 1..Len(seq) : seq[i] = x

IndexOf(seq, x) ==
  IF Includes(seq, x) THEN CHOOSE i \in 1..Len(seq) : seq[i] = x /\ \A j \in 1..(i - 1) : seq[j] # x
  ELSE 0

\* the config addIgnoredPackage saves, or the loaded one when it saves nothing
addIgnoredPackage(config, packageId) ==
  IF Includes(config.ignoredPackages, packageId) THEN config
  ELSE [config EXCEPT !.ignoredPackages = Append(@, packageId)]

removeIgnoredPackage(config, packageId) ==
  LET index == IndexOf(config.ignoredPackages, packageId)
      ignored == config.ignoredPackages
  IN IF index = 0 THEN config
     ELSE [config EXCEPT !.ignoredPackages =
             SubSeq(ignored, 1, index - 1) \o SubSeq(ignored, index + 1, Len(ignored))]

setInstalledVersionDropsIgnored(config, packageId, version) ==
  [config EXCEPT !.installedVersions =
       [k \in (DOMAIN @) \cup {packageId} |-> IF k = packageId THEN version ELSE @[k]],
     !.ignoredPackages = <<>>]

\* the config setInstalledVersion saves
setInstalledVersion(config, packageId, version) ==
  [config EXCEPT !.installedVersions =
       [k \in (DOMAIN @) \cup {packageId} |-> IF k = packageId THEN version ELSE @[k]]]

(***************************************************************************)
(* Update records (types.ts PackageUpdate, base.ts createUpdate)           *)
(***************************************************************************)
createUpdate(id, currentVersion, newVersion, provider, status) ==
  [id |-> id, currentVersion |-> currentVersion, newVersion |-> newVersion,
   provider |-> provider, status |-> status]

\* what each manager of the host can list, in its listing order: the package,
\* the versions it may offer and the statuses it may attach (winget attaches
\* every status of the PackageStatus type; package "a" is known to both
\* managers under the same id)
Catalog(p) ==
  CASE p = "winget" ->
         <<[id |-> "a", versions |-> NewVersions, statuses |-> PackageStatus],
           [id |-> "b", versions |-> NewVersions, statuses |-> {"available", "pinned"}]>>
    [] p = "npm" ->
         <<[id |-> "a", versions |-> NewVersions, statuses |-> {"available", "pinned"}]>>
    [] OTHER -> <<>>

\* the records a catalog entry can yield; the current version is "unknown"
\* exactly for status unknown
RecordsOf(p, e) ==
  {createUpdate(e.id, IF st = "unknown" THEN "unknown" ELSE "0.9", v, p, st) :
     v \in e.versions, st \in e.statuses}

RECURSIVE ListsFrom(_, _, _)
ListsFrom(p, entries, k) ==
  IF k > Len(entries) THEN {<<>>}
  ELSE LET rest == ListsFrom(p, entries, k + 1)
       IN rest \cup {<<r>> \o t : r \in RecordsOf(p, entries[k]), t \in rest}

\* the lists checkUpdates of provider p can resolve to
Outputs(p) == ListsFrom(p, Catalog(p), 1)

(***************************************************************************)
(* checkAllProviders (index.ts)                                            *)
(***************************************************************************)
\* the value one provider's check resolves to, from the way it settled
CheckResultRaiseUnavailable(id, settled) ==
  [id |-> id,
   available |-> settled.st = "returned",
   updates |-> IF settled.st = "returned" THEN settled.out ELSE <<>>]

CheckResult(id, settled) ==
  [id |-> id,
   available |-> settled.st \in {"returned", "raised"},
   updates |-> IF settled.st = "returned" THEN settled.out ELSE <<>>]

SettledStates == {"unregistered", "unavailable", "returned", "raised"}

\* Promise.all(checks) resolves
AnySettled(ids, chk) == \E i \in 1..Len(ids) : chk[ids[i]].st \in SettledStates

AllSettled(ids, chk) == \A i \in 1..Len(ids) : chk[ids[i]].st \in SettledStates

\* the position every check is in once enabledIds.map(async ...) returns
StartChecks(ids) ==
  [id \in {ids[i] : i \in 1..Len(ids)} |->
     [st |-> IF id \in Registered THEN "isAvailable" ELSE "unregistered", out |-> <<>>]]

\* the two filters of the result loop
KeepUpdateByCurrent(u, ignored, installed) ==
  /\ ~Includes(ignored, u.id)
  /\ ~(u.id \in DOMAIN installed /\ installed[u.id] # "" /\ installed[u.id] = u.currentVersion)

KeepUpdateAvailableOnly(u, ignored, installed) ==
  \/ u.status # "available"
  \/ /\ ~Includes(ignored, u.id)
     /\ ~(u.id \in DOMAIN installed /\ installed[u.id] # "" /\ installed[u.id] = u.newVersion)

KeepUpdate(u, ignored, installed) ==
  /\ ~Includes(ignored, u.id)
  /\ ~(u.id \in DOMAIN installed /\ installed[u.id] # "" /\ installed[u.id] = u.newVersion)

RECURSIVE FilterResults(_, _, _, _)
FilterResults(results, k, ignored, installed) ==
  IF k > Len(results) THEN <<>>
  ELSE SelectSeq(results[k].updates, LAMBDA u : KeepUpdate(u, ignored, installed))
         \o FilterResults(results, k + 1, ignored, installed)

CheckedProviders(results) ==
  LET avail == SelectSeq(results, LAMBDA r : r.available)
  IN [i \in 1..Len(avail) |-> avail[i].id]

(***************************************************************************)
(* performUpdates (index.ts)                                               *)
(***************************************************************************)
ToUpdate(list) == SelectSeq(list, LAMBDA u : u.status = "available")

Skippable(list) == SelectSeq(list, LAMBDA u : u.status \in {"pinned", "unknown"})

WingetSkippable(list) == SelectSeq(Skippable(list), LAMBDA u : u.provider = "winget")

\* forceUpdates after the force prompt; confirm is "none" when it is not asked
ForceUpdatesAnyProvider(list, confirm) ==
  IF Len(WingetSkippable(list)) > 0 /\ confirm = "yes" THEN Skippable(list) ELSE <<>>

ForceUpdates(list, confirm) ==
  IF Len(WingetSkippable(list)) > 0 /\ confirm = "yes" THEN WingetSkippable(list) ELSE <<>>

FinalSkipped(list, confirm) ==
  IF Len(WingetSkippable(list)) > 0 /\ confirm = "yes"
  THEN SelectSeq(Skippable(list), LAMBDA u : u.provider # "winget")
  ELSE Skippable(list)

AllToUpdate(list, confirm) == ToUpdate(list) \o ForceUpdates(list, confirm)

\* keys of grouped in insertion order: providers by first appearance
RECURSIVE GroupKeys(_, _)
GroupKeys(all, k) ==
  IF k > Len(all) THEN <<>>
  ELSE LET before == {all[j].provider : j \in 1..(k - 1)}
       IN (IF all[k].provider \in before THEN <<>> ELSE <<all[k].provider>>)
            \o GroupKeys(all, k + 1)

Tagged(all, forced) ==
  [i \in 1..Len(all) |-> [update |-> all[i], force |-> Includes(forced, all[i])]]

\* the {update, force} entries in the order the two nested loops visit them;
\* a group whose provider the registry lacks is skipped
RECURSIVE Visit(_, _, _)
Visit(tagged, keys, k) ==
  IF k > Len(keys) THEN <<>>
  ELSE (IF keys[k] \in Registered
        THEN SelectSeq(tagged, LAMBDA e : e.update.provider = keys[k])
        ELSE <<>>)
         \o Visit(tagged, keys, k + 1)

Queue(list, confirm) ==
  LET all == AllToUpdate(list, confirm)
  IN Visit(Tagged(all, ForceUpdates(list, confirm)), GroupKeys(all, 1), 1)

\* what the manager's command ended with, and what updatePackage resolves to
CommandEndings == {"ok", "fail", "unsupported", "raise"}

UpdatePackageReturn(ending) ==
  CASE ending = "ok" -> "true"
    [] ending = "raise" -> "throw"
    [] OTHER -> "false"

\* the loop body starts the next updatePackage once nothing it awaits is pending
StartsWithoutAwait(calls) == TRUE

AwaitsPrevious(calls) == DOMAIN calls = {}

\* the try/catch around updatePackage and setInstalledVersion
ReactNoCatch(ret) ==
  [success |-> IF ret = "true" THEN 1 ELSE 0,
   failed |-> IF ret = "false" THEN 1 ELSE 0,
   aborts |-> ret = "throw"]

React(ret) ==
  [success |-> IF ret = "true" THEN 1 ELSE 0,
   failed |-> IF ret \in {"false", "throw"} THEN 1 ELSE 0,
   aborts |-> FALSE]

(***************************************************************************)
(* State                                                                   *)
(***************************************************************************)
VARIABLES
  cfgFile,            \* content of config.json (a missing file reads as the defaults)
  pc,                 \* position of the one command the process runs
  cmd,                \* the command: name, provider argument ("none" without), --yes
  enabledIds,         \* checkAllProviders: the three reads of its first lines
  ignoredPackages,
  installedVersions,
  chk,                \* checkAllProviders: position and outcome of every check
  updates,            \* the list the check phase hands to the command
  checkedProviders,
  shown,              \* the list displayUpdates printed
  input,              \* performUpdates: its argument
  forceConfirm,       \* performUpdates: answer of the force prompt
  finalSkipped,
  queue,              \* performUpdates: grouped, flattened in visiting order
  next,               \* index into queue of the next entry of the loops
  calls,              \* updatePackage / setInstalledVersion calls not yet finished
  passed,             \* arguments of every updatePackage call made so far
  successCount,
  failCount,
  arg,                \* a function under study: its argument
  result,             \* ... and what it returned ("none" before the call)
  ua,                 \* BaseProvider.updateAll: its locals and position
  wg,                 \* WingetProvider.updatePackage: its locals and position
  gsudoAvailable,     \* WingetProvider.gsudoAvailable ("null" until probed)
  hostGsudo,          \* whether commandExists("gsudo") succeeds on the host now
  diskFile,           \* config.ts under study: config.json as readFile finds it
  defaultProviders    \* ... and the DEFAULT_PROVIDERS object of the process

checkVars == <<enabledIds, ignoredPackages, installedVersions, chk, updates, checkedProviders, shown>>
performVars == <<input, forceConfirm, finalSkipped, queue, next, calls, passed, successCount, failCount>>
mainVars == <<cfgFile, pc, cmd, checkVars, performVars>>
unitVars == <<arg, result, ua, wg, gsudoAvailable, hostGsudo, diskFile, defaultProviders>>
vars == <<cfgFile, pc, cmd, checkVars, performVars, unitVars>>

NoCmd == [name |-> "none", provider |-> "none", yes |-> FALSE]
NoCalls == [i \in {} |-> [st |-> "running", ending |-> "none", ret |-> "none"]]
NoChk == [id \in {} |-> [st |-> "isAvailable", out |-> <<>>]]

CheckIdle ==
  /\ enabledIds = <<>>
  /\ ignoredPackages = <<>>
  /\ installedVersions = EmptyMap
  /\ chk = NoChk
  /\ updates = <<>>
  /\ checkedProviders = <<>>
  /\ shown = <<>>

PerformIdle ==
  /\ input = <<>>
  /\ forceConfirm = "none"
  /\ finalSkipped = <<>>
  /\ queue = <<>>
  /\ next = 1
  /\ calls = NoCalls
  /\ passed = <<>>
  /\ successCount = 0
  /\ failCount = 0

\* config.json at process start: missing, or written earlier with npm
\* disabled and a provider id this build does not register enabled
InitialFiles ==
  {[providers |-> [k \in {} |-> TRUE], ignoredPackages |-> <<>>, installedVersions |-> EmptyMap],
   [providers |-> [k \in AllProviderIds |-> k # "npm"], ignoredPackages |-> <<>>,
    installedVersions |-> EmptyMap]}

\* no function, updateAll or WingetProvider.updatePackage call is under study
NoUpdateAll == [pc |-> "none"]
NoWinget == [pc |-> "none"]

NoDisk == [kind |-> "none"]
NoArg == [fn |-> "none"]
NoResult == [done |-> FALSE]

UnitIdle ==
  /\ diskFile = NoDisk
  /\ defaultProviders = DEFAULT_PROVIDERS
  /\ arg = NoArg
  /\ result = NoResult
  /\ ua = NoUpdateAll
  /\ wg = NoWinget
  /\ gsudoAvailable = "null"
  /\ hostGsudo = FALSE

Init ==
  /\ cfgFile \in InitialFiles
  /\ pc = "idle"
  /\ cmd = NoCmd
  /\ CheckIdle
  /\ PerformIdle
  /\ UnitIdle

\* the command returns (or main() rejects): nothing of it survives but the file
CheckReset ==
  /\ enabledIds' = <<>>
  /\ ignoredPackages' = <<>>
  /\ installedVersions' = EmptyMap
  /\ chk' = NoChk
  /\ updates' = <<>>
  /\ checkedProviders' = <<>>
  /\ shown' = <<>>

PerformReset ==
  /\ input' = <<>>
  /\ forceConfirm' = "none"
  /\ finalSkipped' = <<>>
  /\ queue' = <<>>
  /\ next' = 1
  /\ calls' = NoCalls
  /\ passed' = <<>>
  /\ successCount' = 0
  /\ failCount' = 0

Return ==
  /\ pc' = "idle"
  /\ cmd' = NoCmd
  /\ CheckReset
  /\ PerformReset

(***************************************************************************)
(* Commands: check, update                                                 *)
(***************************************************************************)
\* checkAllProviders up to Promise.all: the reads, then every check is started
CheckAllStarts ==
  LET ids == getEnabledProviders(cfgFile)
  IN /\ enabledIds' = ids
     /\ ignoredPackages' = getIgnoredPackages(cfgFile)
     /\ installedVersions' = getInstalledVersions(cfgFile)
     /\ chk' = StartChecks(ids)
     /\ pc' = "checking"
     /\ UNCHANGED <<updates, checkedProviders, shown>>

\* provider.checkUpdates() called directly on the named provider
CheckOneStarts ==
  /\ pc' = "checkOne"
  /\ UNCHANGED checkVars

checkCommand(providerId) ==
  /\ pc = "idle"
  /\ cmd' = [name |-> "check", provider |-> providerId, yes |-> FALSE]
  /\ IF providerId = "none" THEN CheckAllStarts ELSE CheckOneStarts
  /\ UNCHANGED <<cfgFile, performVars>>
  /\ UNCHANGED unitVars

updateCommand(providerId, skipConfirm) ==
  /\ pc = "idle"
  /\ cmd' = [name |-> "update", provider |-> providerId, yes |-> skipConfirm]
  /\ IF providerId = "none" THEN CheckAllStarts ELSE CheckOneStarts
  /\ UNCHANGED <<cfgFile, performVars>>
  /\ UNCHANGED unitVars

isAvailableSettles(id) ==
  /\ pc = "checking"
  /\ id \in DOMAIN chk
  /\ chk[id].st = "isAvailable"
  /\ \E available \in BOOLEAN :
       chk' = [chk EXCEPT ![id].st = IF available THEN "checkUpdates" ELSE "unavailable"]
  /\ UNCHANGED <<cfgFile, pc, cmd, enabledIds, ignoredPackages, installedVersions,
                 updates, checkedProviders, shown, performVars>>
  /\ UNCHANGED unitVars

checkUpdatesSettles(id) ==
  /\ pc = "checking"
  /\ id \in DOMAIN chk
  /\ chk[id].st = "checkUpdates"
  /\ \/ \E out \in Outputs(id) : chk' = [chk EXCEPT ![id] = [st |-> "returned", out |-> out]]
     \/ chk' = [chk EXCEPT ![id].st = "raised"]
  /\ UNCHANGED <<cfgFile, pc, cmd, enabledIds, ignoredPackages, installedVersions,
                 updates, checkedProviders, shown, performVars>>
  /\ UNCHANGED unitVars

\* Promise.all resolves; the result loop; checkAllProviders returns
checkAllReturns ==
  /\ pc = "checking"
  /\ AllSettled(enabledIds, chk)
  /\ LET results == [i \in 1..Len(enabledIds) |-> CheckResult(enabledIds[i], chk[enabledIds[i]])]
         allUpdates == FilterResults(results, 1, ignoredPackages, installedVersions)
     IN /\ IF cmd.name = "update" /\ Len(allUpdates) = 0
           THEN Return
           ELSE /\ updates' = allUpdates
                /\ checkedProviders' = CheckedProviders(results)
                /\ shown' = allUpdates
                /\ pc' = "displayed"
                /\ UNCHANGED <<cmd, enabledIds, ignoredPackages, installedVersions, chk,
                               performVars>>
  /\ UNCHANGED cfgFile
  /\ UNCHANGED unitVars

\* the direct checkUpdates settles; a rejection ends the command in main().catch
checkOneSettles ==
  /\ pc = "checkOne"
  /\ \/ Return
     \/ \E out \in Outputs(cmd.provider) :
          IF cmd.name = "update" /\ Len(out) = 0
          THEN Return
          ELSE /\ updates' = out
               /\ checkedProviders' = <<cmd.provider>>
               /\ shown' = out
               /\ pc' = "displayed"
               /\ UNCHANGED <<cmd, enabledIds, ignoredPackages, installedVersions, chk,
                              performVars>>
  /\ UNCHANGED cfgFile
  /\ UNCHANGED unitVars

\* checkCommand's tail: updateLastCheck saves the loaded config (the timestamp
\* itself is not modelled); a failed write leaves the file as it was
checkCommandEnds ==
  /\ pc = "displayed"
  /\ cmd.name = "check"
  /\ \E saved \in BOOLEAN : cfgFile' = IF saved THEN loadConfig(cfgFile) ELSE cfgFile
  /\ Return
  /\ UNCHANGED unitVars

\* selectUpdates: the ids ticked in the multiselect (all records without the
\* prompt); nothing selected, or a cancel, ends the command
SelectById(list, ids) == SelectSeq(list, LAMBDA u : u.id \in ids)

selectUpdates ==
  /\ pc = "displayed"
  /\ cmd.name = "update"
  /\ \E ids \in IF cmd.yes THEN {PkgIds} ELSE SUBSET PkgIds :
       LET selection == SelectById(updates, ids)
       IN IF Len(selection) = 0
          THEN Return
          ELSE /\ input' = selection
               /\ pc' = "perform"
               /\ CheckReset
               /\ UNCHANGED <<cmd, forceConfirm, finalSkipped, queue, next, calls, passed,
                              successCount, failCount>>
  /\ UNCHANGED cfgFile
  /\ UNCHANGED unitVars

(***************************************************************************)
(* performUpdates                                                          *)
(***************************************************************************)
\* the partition, the force prompt (asked only over winget records; a cancel
\* counts as "no"), the grouping; no record to update returns at once
performUpdatesPlans ==
  /\ pc = "perform"
  /\ \E confirm \in IF Len(WingetSkippable(input)) > 0 THEN {"yes", "no"} ELSE {"none"} :
       /\ forceConfirm' = confirm
       /\ finalSkipped' = FinalSkipped(input, confirm)
       /\ queue' = Queue(input, confirm)
       /\ pc' = IF Len(AllToUpdate(input, confirm)) = 0 THEN "updated" ELSE "updating"
  /\ UNCHANGED <<cfgFile, cmd, checkVars, input, next, calls, passed, successCount, failCount>>
  /\ UNCHANGED unitVars

\* the loop body reaches provider.updatePackage(update.id, {force})
updatePackageStarts ==
  /\ pc = "updating"
  /\ next <= Len(queue)
  /\ AwaitsPrevious(calls)
  /\ calls' = [i \in (DOMAIN calls) \cup {next} |->
                 IF i = next THEN [st |-> "running", ending |-> "none", ret |-> "none"]
                 ELSE calls[i]]
  /\ passed' = Append(passed, [id |-> queue[next].update.id,
                               provider |-> queue[next].update.provider,
                               force |-> queue[next].force])
  /\ next' = next + 1
  /\ UNCHANGED <<cfgFile, pc, cmd, checkVars, input, forceConfirm, finalSkipped, queue,
                 successCount, failCount>>
  /\ UNCHANGED unitVars

\* the manager's command ends and updatePackage settles
updatePackageSettles(i) ==
  /\ pc = "updating"
  /\ i \in DOMAIN calls
  /\ calls[i].st = "running"
  /\ \E ending \in CommandEndings :
       calls' = [calls EXCEPT ![i] =
                   [st |-> "settled", ending |-> ending, ret |-> UpdatePackageReturn(ending)]]
  /\ UNCHANGED <<cfgFile, pc, cmd, checkVars, input, forceConfirm, finalSkipped, queue, next,
                 passed, successCount, failCount>>
  /\ UNCHANGED unitVars

Without(f, i) == [j \in (DOMAIN f) \ {i} |-> f[j]]

\* the continuation after the await: count, and on success call
\* setInstalledVersion, which begins by reading the file
resultHandled(i) ==
  /\ pc = "updating"
  /\ i \in DOMAIN calls
  /\ calls[i].st = "settled"
  /\ LET r == React(calls[i].ret)
     IN /\ successCount' = successCount + r.success
        /\ failCount' = failCount + r.failed
        /\ IF r.aborts
           THEN /\ pc' = "aborted"
                /\ calls' = Without(calls, i)
           ELSE /\ pc' = pc
                /\ calls' = IF calls[i].ret = "true"
                            THEN [calls EXCEPT ![i].st = "reading"]
                            ELSE Without(calls, i)
  /\ UNCHANGED <<cfgFile, cmd, checkVars, input, forceConfirm, finalSkipped, queue, next, passed>>
  /\ UNCHANGED unitVars

\* setInstalledVersion: loadConfig, set the entry, saveConfig; a write that
\* fails rejects into the catch of the loop body
setInstalledVersionSaves(i) ==
  /\ pc = "updating"
  /\ i \in DOMAIN calls
  /\ calls[i].st = "reading"
  /\ \E saved \in BOOLEAN :
       IF saved
       THEN /\ cfgFile' = setInstalledVersion(loadConfig(cfgFile), queue[i].update.id,
                                              queue[i].update.newVersion)
            /\ failCount' = failCount
       ELSE /\ cfgFile' = cfgFile
            /\ failCount' = failCount + 1
  /\ calls' = Without(calls, i)
  /\ UNCHANGED <<pc, cmd, checkVars, input, forceConfirm, finalSkipped, queue, next, passed,
                 successCount>>
  /\ UNCHANGED unitVars

\* both loops are through: the summary
performUpdatesReturns ==
  /\ pc = "updating"
  /\ next > Len(queue)
  /\ calls = NoCalls
  /\ pc' = "updated"
  /\ UNCHANGED <<cfgFile, cmd, checkVars, performVars>>
  /\ UNCHANGED unitVars

updateCommandEnds ==
  /\ pc \in {"updated", "aborted"}
  /\ Return
  /\ UNCHANGED cfgFile
  /\ UNCHANGED unitVars

(***************************************************************************)
(* Commands: ignore, unignore                                              *)
(***************************************************************************)
\* a config that differs from the loaded one is saved; the write may fail
ignoreCommand(packageId) ==
  /\ pc = "idle"
  /\ LET config == loadConfig(cfgFile)
         changed == addIgnoredPackage(config, packageId)
     IN \E saved \in BOOLEAN :
          cfgFile' = IF changed # config /\ saved THEN changed ELSE cfgFile
  /\ UNCHANGED <<pc, cmd, checkVars, performVars>>
  /\ UNCHANGED unitVars

unignoreCommand(packageId) ==
  /\ pc = "idle"
  /\ LET config == loadConfig(cfgFile)
         changed == removeIgnoredPackage(config, packageId)
     IN \E saved \in BOOLEAN :
          cfgFile' = IF changed # config /\ saved THEN changed ELSE cfgFile
  /\ UNCHANGED <<pc, cmd, checkVars, performVars>>
  /\ UNCHANGED unitVars

Next ==
  \/ \E providerId \in {"none"} \cup Registered : checkCommand(providerId)
  \/ \E providerId \in {"none"} \cup Registered, skipConfirm \in BOOLEAN :
       updateCommand(providerId, skipConfirm)
  \/ \E id \in AllProviderIds : isAvailableSettles(id)
  \/ \E id \in AllProviderIds : checkUpdatesSettles(id)
  \/ checkAllReturns
  \/ checkOneSettles
  \/ checkCommandEnds
  \/ selectUpdates
  \/ performUpdatesPlans
  \/ updatePackageStarts
  \/ \E i \in DOMAIN calls : updatePackageSettles(i)
  \/ \E i \in DOMAIN calls : resultHandled(i)
  \/ \E i \in DOMAIN calls : setInstalledVersionSaves(i)
  \/ performUpdatesReturns
  \/ updateCommandEnds
  \/ \E packageId \in PkgIds : ignoreCommand(packageId)
  \/ \E packageId \in PkgIds : unignoreCommand(packageId)

Spec == Init /\ [][Next]_vars

(***************************************************************************)
(* Properties                                                              *)
(***************************************************************************)
Range(seq) == {seq[i] : i \in 1..Len(seq)}

Occurrences(seq, x) == Cardinality({i \in 1..Len(seq) : seq[i] = x})

\* checkAllProviders has returned to a command without provider argument
CheckAllDisplayed == pc = "displayed" /\ cmd.provider = "none"

\* the records the checks of the enabled, available providers resolved to
Returned == UNION {Range(chk[id].out) : id \in {i \in DOMAIN chk : chk[i].st = "returned"}}

Ignored(id) == id \in Range(cfgFile.ignoredPackages)

InstalledIs(id, v) ==
  id \in DOMAIN cfgFile.installedVersions /\ cfgFile.installedVersions[id] = v

\* C1: a record returned by an enabled, available provider is in the final
\* update list (once) iff its id is not in the persisted ignoredPackages and
\* its newVersion differs from the persisted installedVersions[id], whatever
\* its status; the list holds nothing else.
C1_FilteredIffNotIgnoredNotInstalled ==
  CheckAllDisplayed =>
    /\ \A r \in Returned :
         IF ~Ignored(r.id) /\ ~InstalledIs(r.id, r.newVersion)
         THEN Occurrences(updates, r) = 1
         ELSE Occurrences(updates, r) = 0
    /\ Range(updates) \subseteq Returned

\* C1 witness: a pinned record whose versions differ is dropped for its saved
\* version while an error record and an unknown one pass.
C1_Witness ==
  /\ CheckAllDisplayed
  /\ \E r \in Returned :
       /\ r.status = "pinned"
       /\ r.currentVersion # r.newVersion
       /\ InstalledIs(r.id, r.newVersion)
       /\ r \notin Range(updates)
  /\ \E r \in Returned : Ignored(r.id) /\ r \notin Range(updates)
  /\ \E r \in Range(updates) : r.status \in {"error", "unknown"}

\* C2: checkedProviders holds exactly the enabled ids that are registered and
\* whose isAvailable() returned true, whether or not checkUpdates then raised;
\* a provider that raised contributes no record and every record of the others
\* that passes the filters is still returned.
C2_CheckedIffAvailable ==
  CheckAllDisplayed =>
    /\ DOMAIN chk = Range(getEnabledProviders(cfgFile))
    /\ Range(checkedProviders) =
         {id \in DOMAIN chk : id \in Registered /\ chk[id].st \in {"returned", "raised"}}
    /\ \A id \in DOMAIN chk : Occurrences(checkedProviders, id) <= 1
    /\ \A id \in DOMAIN chk :
         chk[id].st = "raised" => \A u \in Range(updates) : u.provider # id
    /\ \A id \in DOMAIN chk :
         chk[id].st = "returned" =>
           \A r \in Range(chk[id].out) :
             ~Ignored(r.id) /\ ~InstalledIs(r.id, r.newVersion) => r \in Range(updates)

\* C2 witness: one provider raised and is listed as checked, the other one's
\* record is returned.
C2_Witness ==
  /\ CheckAllDisplayed
  /\ \E id \in DOMAIN chk : chk[id].st = "raised" /\ id \in Range(checkedProviders)
  /\ \E u \in Range(updates) : chk[u.provider].st = "returned"

Started == {"isAvailable", "checkUpdates", "unregistered", "unavailable", "returned", "raised"}

\* C3: once the fan-out has run every enabled provider's check is started
\* without waiting for another one, nothing is filtered while a check is
\* pending, and checkAllProviders is left only when every check has settled.
C3_FanOutThenBarrier ==
  /\ [](pc = "checking" =>
          /\ DOMAIN chk = Range(enabledIds)
          /\ \A id \in DOMAIN chk : chk[id].st \in Started
          /\ updates = <<>> /\ checkedProviders = <<>> /\ shown = <<>>)
  /\ [][pc = "checking" /\ pc' # "checking" =>
          \A id \in DOMAIN chk : chk[id].st \in {"unregistered", "unavailable", "returned", "raised"}]_vars

\* C3 witness: one check has returned records while another one is still
\* running, and no result exists yet.
C3_Witness ==
  /\ pc = "checking"
  /\ \E id \in DOMAIN chk : chk[id].st = "returned" /\ Len(chk[id].out) > 0
  /\ \E id \in DOMAIN chk : chk[id].st = "isAvailable"
  /\ updates = <<>>

C5_IgnoredNeverShown ==
  /\ pc = "displayed" => \A u \in Range(shown) : ~Ignored(u.id)
  /\ \A u \in Range(input) : ~Ignored(u.id)

\* the persisted state as the program reads it back
Persisted(file) == loadConfig(file)

Override(map, id, v) == [k \in (DOMAIN map) \cup {id} |-> IF k = id THEN v ELSE map[k]]

\* the setInstalledVersion call of queue entry i ends in this step
SaveEnds(i) == i \in DOMAIN calls /\ calls[i].st = "reading" /\ i \notin DOMAIN calls'

\* in this step the loop body is through with an updatePackage that returned
\* false or raised
FailureHandled(i) ==
  /\ i \in DOMAIN calls
  /\ calls[i].st = "settled"
  /\ calls[i].ret \in {"false", "throw"}
  /\ i \notin DOMAIN calls' \/ calls'[i].st # "settled"

InPerformUpdates == pc \in {"perform", "updating"}

\* performUpdates leaves ignoredPackages and the providers map alone and
\* changes installedVersions only where a setInstalledVersion call ends, to
\* that record's newVersion
WriteThroughFrame ==
  InPerformUpdates =>
    /\ Persisted(cfgFile').ignoredPackages = Persisted(cfgFile).ignoredPackages
    /\ Persisted(cfgFile').providers = Persisted(cfgFile).providers
    /\ cfgFile'.installedVersions # cfgFile.installedVersions =>
         \E i \in DOMAIN calls :
           /\ SaveEnds(i)
           /\ cfgFile'.installedVersions =
                Override(cfgFile.installedVersions, queue[i].update.id, queue[i].update.newVersion)
    /\ \A i \in DOMAIN calls : FailureHandled(i) => cfgFile' = cfgFile

FinalUpdateSet ==
  {u \in Range(input) :
     \/ u.status = "available"
     \/ u.status \in {"pinned", "unknown"} /\ u.provider = "winget" /\ forceConfirm = "yes"}

PassedFor(u) == {k \in 1..Len(passed) : passed[k].id = u.id /\ passed[k].provider = u.provider}

\* C7: an updatePackage that returns false or raises adds one to failed, none
\* to updated, and the run goes on: when performUpdates returns, every record
\* of the final update set has been passed to updatePackage exactly once.
C7_FailureDoesNotAbort ==
  /\ [](pc # "aborted")
  /\ [](pc = "updated" =>
          /\ \A u \in FinalUpdateSet : Cardinality(PassedFor(u)) = 1
          /\ Len(passed) = Cardinality(FinalUpdateSet))
  /\ [][\A i \in DOMAIN calls :
          FailureHandled(i) =>
            /\ failCount' = failCount + 1
            /\ successCount' = successCount
            /\ pc' = "updating"
            /\ passed' = passed /\ next' = next /\ queue' = queue]_vars

\* C7 witness: after a failure a record of a later provider is running.
C7_Witness ==
  /\ pc = "updating"
  /\ failCount >= 1
  /\ successCount = 0
  /\ \E i \in DOMAIN calls :
       /\ calls[i].st = "running"
       /\ i >= 3
       /\ queue[i].update.provider # queue[1].update.provider

Forceable(u) ==
  u.status \in {"pinned", "unknown"} /\ u.provider = "winget" /\ forceConfirm = "yes"

\* C8: a record goes to updatePackage with force=true iff it is pinned or
\* unknown, of winget, and the force prompt was accepted; available records go
\* with force=false; every other pinned or unknown record is never passed and
\* is counted as skipped.
C8_ForceOnlyWingetConfirmed ==
  /\ \A u \in Range(input) : \A k \in PassedFor(u) : passed[k].force <=> Forceable(u)
  /\ \A u \in Range(input) :
       u.status \in {"pinned", "unknown"} /\ ~Forceable(u) /\ pc \in {"updating", "updated"} =>
         PassedFor(u) = {} /\ u \in Range(finalSkipped)
  /\ pc = "updated" =>
       \A u \in Range(input) :
         /\ u.status = "available" => \E k \in PassedFor(u) : ~passed[k].force
         /\ Forceable(u) => u \notin Range(finalSkipped) /\ \E k \in PassedFor(u) : passed[k].force

\* C8 witness: a forced winget record and an unforced one were passed while a
\* pinned record of another provider stayed skipped.
C8_Witness ==
  /\ pc = "updated"
  /\ \E k \in 1..Len(passed) : passed[k].force
  /\ \E k \in 1..Len(passed) : ~passed[k].force
  /\ \E u \in Range(finalSkipped) : u.provider # "winget"

\* C9: at most one updatePackage call or installedVersions write is pending
\* at any moment, and it belongs to the entry the loop started last: the next
\* call starts only when the previous one and its write are through.
C9_OneAtATime ==
  /\ Cardinality(DOMAIN calls) <= 1
  /\ \A i \in DOMAIN calls : i = next - 1
  /\ Len(passed) = next - 1

\* C9 witness: the write of the second success is pending, alone.
C9_Witness ==
  /\ pc = "updating"
  /\ successCount = 2
  /\ \E i \in DOMAIN calls : calls[i].st = "reading" /\ i = 2
  /\ next <= Len(queue)

\* C10: when the manager signals a permanently unsupported update, what
\* updatePackage resolves to differs from what it resolves to on a generic
\* failure.
C10_UnsupportedDistinguished ==
  \A i \in DOMAIN calls :
    calls[i].ending = "unsupported" => calls[i].ret # UpdatePackageReturn("fail")

(***************************************************************************)
(* BaseProvider.updateAll                                                  *)
(***************************************************************************)
MaxUpdates == 3

\* no command of the program runs while one function is studied
MainIdle ==
  /\ cfgFile = [providers |-> [k \in {} |-> TRUE], ignoredPackages |-> <<>>,
                installedVersions |-> EmptyMap]
  /\ pc = "idle"
  /\ cmd = NoCmd
  /\ CheckIdle
  /\ PerformIdle

\* what this.checkUpdates() can resolve to: any list of records, two records
\* of one id included
RECURSIVE UpdateLists(_)
UpdateLists(n) ==
  IF n = 0 THEN {<<>>}
  ELSE LET shorter == UpdateLists(n - 1)
       IN shorter \cup
          {Append(l, createUpdate(id, "0.9", "1.0", "unit", status)) :
             l \in {x \in shorter : Len(x) = n - 1}, id \in PkgIds, status \in PackageStatus}

UpdatePackageOutcomes == {"true", "false", "throw"}

updateAllSkipsNonAvailable(update) == update.status # "available"

\* if (update.status === "pinned") { result.skipped.push(update.id); continue; }
updateAllSkips(update) == update.status = "pinned"

InitUpdateAll ==
  /\ MainIdle
  /\ diskFile = NoDisk
  /\ defaultProviders = DEFAULT_PROVIDERS
  /\ arg = NoArg
  /\ result = NoResult
  /\ ua = [pc |-> "start"]
  /\ wg = NoWinget
  /\ gsudoAvailable = "null"
  /\ hostGsudo = FALSE

\* const updates = await this.checkUpdates(); the result object is created
checkUpdatesResolves ==
  /\ ua.pc = "start"
  /\ \E list \in UpdateLists(MaxUpdates) :
       ua' = [pc |-> "loop", updates |-> list, k |-> 1, success |-> TRUE,
              updated |-> <<>>, failed |-> <<>>, skipped |-> <<>>,
              passed |-> <<>>, hist |-> <<>>]
  /\ UNCHANGED <<mainVars, diskFile, defaultProviders, arg, result, wg, gsudoAvailable, hostGsudo>>

\* a rejecting checkUpdates rejects updateAll before any record is looked at
checkUpdatesRejects ==
  /\ ua.pc = "start"
  /\ ua' = [pc |-> "rejected"]
  /\ UNCHANGED <<mainVars, diskFile, defaultProviders, arg, result, wg, gsudoAvailable, hostGsudo>>

\* the loop reaches a record: it is skipped, or updatePackage is called
updateAllVisits ==
  /\ ua.pc = "loop"
  /\ ua.k <= Len(ua.updates)
  /\ LET update == ua.updates[ua.k]
     IN IF updateAllSkips(update)
        THEN ua' = [ua EXCEPT !.skipped = Append(@, update.id),
                              !.hist = Append(@, [id |-> update.id, status |-> update.status,
                                                  ret |-> "skip"]),
                              !.k = @ + 1]
        ELSE ua' = [ua EXCEPT !.passed = Append(@, update.id), !.pc = "awaiting"]
  /\ UNCHANGED <<mainVars, diskFile, defaultProviders, arg, result, wg, gsudoAvailable, hostGsudo>>

\* this.updatePackage(update.id) settles: the try/catch
updateAllCounts ==
  /\ ua.pc = "awaiting"
  /\ \E ret \in UpdatePackageOutcomes :
       LET update == ua.updates[ua.k]
           seen == [id |-> update.id, status |-> update.status, ret |-> ret]
       IN IF ret = "true"
          THEN ua' = [ua EXCEPT !.updated = Append(@, update.id), !.hist = Append(@, seen),
                                !.k = @ + 1, !.pc = "loop"]
          ELSE ua' = [ua EXCEPT !.failed = Append(@, update.id), !.success = FALSE,
                                !.hist = Append(@, seen), !.k = @ + 1, !.pc = "loop"]
  /\ UNCHANGED <<mainVars, diskFile, defaultProviders, arg, result, wg, gsudoAvailable, hostGsudo>>

updateAllReturns ==
  /\ ua.pc = "loop"
  /\ ua.k > Len(ua.updates)
  /\ ua' = [ua EXCEPT !.pc = "returned"]
  /\ UNCHANGED <<mainVars, diskFile, defaultProviders, arg, result, wg, gsudoAvailable, hostGsudo>>

NextUpdateAll ==
  \/ checkUpdatesResolves
  \/ checkUpdatesRejects
  \/ updateAllVisits
  \/ updateAllCounts
  \/ updateAllReturns

SpecUpdateAll == InitUpdateAll /\ [][NextUpdateAll]_vars

IdsOf(seq) == [j \in 1..Len(seq) |-> seq[j].id]

MaxVersionLen == 3
VersionChars == {"0", "1", "2", ".", "-", "x"}
Digits == {"0", "1", "2"}

RECURSIVE Texts(_)
Texts(n) ==
  IF n = 0 THEN {<<>>}
  ELSE LET shorter == Texts(n - 1)
       IN shorter \cup {Append(t, c) : t \in {x \in shorter : Len(x) = n - 1}, c \in VersionChars}

Unknown == <<"u", "n", "k", "n", "o", "w", "n">>

VersionTexts == Texts(MaxVersionLen) \cup {Unknown}

\* String.prototype.includes for one character
IncludesChar(text, c) == \E i \in 1..Len(text) : text[i] = c

FirstIndex(text, c) == CHOOSE i \in 1..Len(text) : text[i] = c /\ \A j \in 1..(i - 1) : text[j] # c

\* text.replace(/-.*$/, "")
StripSuffix(text) ==
  IF IncludesChar(text, "-") THEN SubSeq(text, 1, FirstIndex(text, "-") - 1) ELSE text

\* text.split("."): one segment more than there are dots, empty ones kept
RECURSIVE Split(_)
Split(text) ==
  IF IncludesChar(text, ".")
  THEN LET i == FirstIndex(text, ".")
       IN <<SubSeq(text, 1, i - 1)>> \o Split(SubSeq(text, i + 1, Len(text)))
  ELSE <<text>>

DigitValue(c) == CASE c = "0" -> 0 [] c = "1" -> 1 [] c = "2" -> 2

RECURSIVE Decimal(_)
Decimal(digits) ==
  IF Len(digits) = 0 THEN 0
  ELSE Decimal(SubSeq(digits, 1, Len(digits) - 1)) * 10 + DigitValue(digits[Len(digits)])

\* Number(segment): the empty string is 0, a digit string its value, any
\* other text NaN
Number(segment) ==
  IF \A i \in 1..Len(segment) : segment[i] \in Digits
  THEN [nan |-> FALSE, n |-> Decimal(segment)]
  ELSE [nan |-> TRUE, n |-> 0]

PartOrZeroKeepsNaN(parts, i) ==
  IF i > Len(parts) THEN 0 ELSE IF parts[i].nan THEN 3 ELSE parts[i].n

\* parts[i] || 0: undefined, NaN and 0 all read as 0
PartOrZero(parts, i) ==
  IF i > Len(parts) \/ parts[i].nan THEN 0 ELSE parts[i].n

Max(a, b) == IF a >= b THEN a ELSE b

\* the for loop: the first index whose two values differ decides
RECURSIVE CompareFrom(_, _, _)
CompareFrom(currentParts, newParts, i) ==
  IF i > Max(Len(currentParts), Len(newParts)) THEN "equal"
  ELSE LET curr == PartOrZero(currentParts, i)
           nxt == PartOrZero(newParts, i)
       IN IF nxt > curr THEN "true"
          ELSE IF nxt < curr THEN "false"
          ELSE CompareFrom(currentParts, newParts, i + 1)

\* nothing in the try block raises here, so the catch is never entered
isNewerVersion(currentVersion, newVersion) ==
  LET cleanCurrent == StripSuffix(currentVersion)
      cleanNew == StripSuffix(newVersion)
      currentSplit == Split(cleanCurrent)
      newSplit == Split(cleanNew)
      currentParts == [i \in 1..Len(currentSplit) |-> Number(currentSplit[i])]
      newParts == [i \in 1..Len(newSplit) |-> Number(newSplit[i])]
      loop == CompareFrom(currentParts, newParts, 1)
  IN IF loop = "true" THEN TRUE
     ELSE IF loop = "false" THEN FALSE
     ELSE IncludesChar(currentVersion, "-") /\ ~IncludesChar(newVersion, "-")

InitVersions ==
  /\ MainIdle
  /\ diskFile = NoDisk
  /\ defaultProviders = DEFAULT_PROVIDERS
  /\ \E c \in VersionTexts, n \in VersionTexts :
       arg = [fn |-> "isNewerVersion", currentVersion |-> c, newVersion |-> n]
  /\ result = NoResult
  /\ ua = NoUpdateAll
  /\ wg = NoWinget
  /\ gsudoAvailable = "null"
  /\ hostGsudo = FALSE

isNewerVersionReturns ==
  /\ arg.fn = "isNewerVersion"
  /\ ~result.done
  /\ result' = [done |-> TRUE, value |-> isNewerVersion(arg.currentVersion, arg.newVersion)]
  /\ UNCHANGED <<mainVars, diskFile, defaultProviders, arg, ua, wg, gsudoAvailable, hostGsudo>>

NextVersions == isNewerVersionReturns

SpecVersions == InitVersions /\ [][NextVersions]_vars

\* the comparator the specification describes, over the same texts
RefBase(text) ==
  IF \E i \in 1..Len(text) : text[i] = "-"
  THEN SubSeq(text, 1, (CHOOSE i \in 1..Len(text) :
                          text[i] = "-" /\ \A j \in 1..(i - 1) : text[j] # "-") - 1)
  ELSE text

RefDots(text) == {i \in 1..Len(text) : text[i] = "."}

\* the k-th dot-separated segment of text, as its start and end positions
RefSegment(text, k) ==
  LET cuts == {0} \cup RefDots(text) \cup {Len(text) + 1}
      nth(m) == CHOOSE c \in cuts : Cardinality({d \in cuts : d < c}) = m
  IN SubSeq(text, nth(k - 1) + 1, nth(k) - 1)

RefCount(text) == Cardinality(RefDots(text)) + 1

RefNumeric(segment) == Len(segment) > 0 /\ \A i \in 1..Len(segment) : segment[i] \in {"0", "1", "2"}

RECURSIVE RefNumber(_)
RefNumber(segment) ==
  IF Len(segment) = 0 THEN 0
  ELSE 10 * RefNumber(SubSeq(segment, 1, Len(segment) - 1))
       + (CASE segment[Len(segment)] = "0" -> 0
            [] segment[Len(segment)] = "1" -> 1
            [] segment[Len(segment)] = "2" -> 2)

RefValue(text, k) ==
  IF k > RefCount(text) THEN 0
  ELSE IF RefNumeric(RefSegment(text, k)) THEN RefNumber(RefSegment(text, k)) ELSE 0

RefNewer(current, candidate) ==
  LET a == RefBase(current)
      b == RefBase(candidate)
      n == IF RefCount(a) >= RefCount(b) THEN RefCount(a) ELSE RefCount(b)
      differing == {k \in 1..n : RefValue(a, k) # RefValue(b, k)}
  IN IF differing # {}
     THEN LET k == CHOOSE d \in differing : \A e \in differing : d <= e
          IN RefValue(b, k) > RefValue(a, k)
     ELSE (\E i \in 1..Len(current) : current[i] = "-")
          /\ ~(\E i \in 1..Len(candidate) : candidate[i] = "-")

WellFormed(text) ==
  LET base == RefBase(text)
  IN /\ \A k \in 1..RefCount(base) : RefNumeric(RefSegment(base, k))
     /\ (\E i \in 1..Len(text) : text[i] = "-") => text[Len(text)] # "-"

\* C15: for every well-formed version v, isNewerVersion("unknown", v) is
\* true and isNewerVersion(v, "unknown") is false.
C15_UnknownIsOldest ==
  result.done /\ arg.fn = "isNewerVersion" =>
    /\ arg.currentVersion = Unknown /\ WellFormed(arg.newVersion) => result.value
    /\ arg.newVersion = Unknown /\ WellFormed(arg.currentVersion) => ~result.value

(***************************************************************************)
(* parseWingetOutput                                                       *)
(***************************************************************************)
\* The text is taken as the parser sees it after the section scan: a list of
\* sections with their two flags, each a list of lines after the separator;
\* a data line is given by its column slices, already trimmed.
MaxRows == 2

ColumnName == {"", "A"}
ColumnId == {"", "a", "Id"}
ColumnVersion == {"", "unknown", "Unknown", "1.0", "2.0"}
ColumnAvailable == {"", "2.0", "Unknown"}

WingetLines ==
  {[kind |-> "blank"], [kind |-> "summary"], [kind |-> "dashes"]}
    \cup {[kind |-> "row", name |-> n, id |-> i, version |-> v, available |-> a] :
            n \in ColumnName, i \in ColumnId, v \in ColumnVersion, a \in ColumnAvailable}

RECURSIVE WingetLineLists(_)
WingetLineLists(n) ==
  IF n = 0 THEN {<<>>}
  ELSE LET shorter == WingetLineLists(n - 1)
       IN shorter \cup {Append(l, x) : l \in {y \in shorter : Len(y) = n - 1}, x \in WingetLines}

\* a second section as winget prints it for pinned packages
PinnedSection ==
  [isPinned |-> TRUE, requiresExplicit |-> FALSE,
   lines |-> <<[kind |-> "row", name |-> "B", id |-> "b", version |-> "1.0", available |-> "2.0"]>>]

\* one section, with or without the pinned section after it
WingetOutput(first, pinnedFollows) ==
  IF pinnedFollows THEN <<first, PinnedSection>> ELSE <<first>>

\* String.prototype.toLowerCase on the texts of the version column
ToLowerCase(text) == IF text = "Unknown" THEN "unknown" ELSE text

IsUnknownVersionExact(currentVersion) == currentVersion = "unknown" \/ currentVersion = ""

\* currentVersion.toLowerCase() === "unknown" || !currentVersion
IsUnknownVersion(currentVersion) == ToLowerCase(currentVersion) = "unknown" \/ currentVersion = ""

ParseWingetRowNeverPinned(section, line) ==
  LET id == line.id
      name == line.name
      currentVersion == line.version
      newVersion == line.available
      status == IF IsUnknownVersion(currentVersion) THEN "unknown"
                ELSE IF FALSE THEN "pinned" ELSE "available"
      notes == IF IsUnknownVersion(currentVersion) THEN "Current version unknown"
               ELSE IF FALSE THEN "Package is pinned"
               ELSE IF section.requiresExplicit THEN "Requires explicit targeting"
               ELSE "undefined"
  IN IF id = "" \/ newVersion = "" THEN <<>>
     ELSE IF id = "Id" \/ name = "Name" THEN <<>>
     ELSE IF currentVersion # newVersion
     THEN <<[id |-> id,
             name |-> IF name # "" THEN name ELSE id,
             currentVersion |-> IF currentVersion # "" THEN currentVersion ELSE "unknown",
             newVersion |-> newVersion,
             status |-> status,
             notes |-> notes]>>
     ELSE <<>>

\* one data line: the records it adds to updates (none or one)
ParseWingetRow(section, line) ==
  LET id == line.id
      name == line.name
      currentVersion == line.version
      newVersion == line.available
      status == IF IsUnknownVersion(currentVersion) THEN "unknown"
                ELSE IF section.isPinned THEN "pinned" ELSE "available"
      notes == IF IsUnknownVersion(currentVersion) THEN "Current version unknown"
               ELSE IF section.isPinned THEN "Package is pinned"
               ELSE IF section.requiresExplicit THEN "Requires explicit targeting"
               ELSE "undefined"
  IN IF id = "" \/ newVersion = "" THEN <<>>
     ELSE IF id = "Id" \/ name = "Name" THEN <<>>
     ELSE IF currentVersion # newVersion
     THEN <<[id |-> id,
             name |-> IF name # "" THEN name ELSE id,
             currentVersion |-> IF currentVersion # "" THEN currentVersion ELSE "unknown",
             newVersion |-> newVersion,
             status |-> status,
             notes |-> notes]>>
     ELSE <<>>

\* the inner loop from line i of a section: break at a blank or summary line,
\* continue over a line of dashes
RECURSIVE ParseWingetSection(_, _)
ParseWingetSection(section, i) ==
  IF i > Len(section.lines) THEN <<>>
  ELSE LET line == section.lines[i]
       IN IF line.kind \in {"blank", "summary"} THEN <<>>
          ELSE IF line.kind = "dashes" THEN ParseWingetSection(section, i + 1)
          ELSE ParseWingetRow(section, line) \o ParseWingetSection(section, i + 1)

RECURSIVE ParseWingetSections(_, _)
ParseWingetSections(sections, s) ==
  IF s > Len(sections) THEN <<>>
  ELSE ParseWingetSection(sections[s], 1) \o ParseWingetSections(sections, s + 1)

parseWingetOutput(output) == ParseWingetSections(output, 1)

InitWinget ==
  /\ MainIdle
  /\ diskFile = NoDisk
  /\ defaultProviders = DEFAULT_PROVIDERS
  /\ \E ip \in BOOLEAN, re \in BOOLEAN, l \in WingetLineLists(MaxRows), more \in BOOLEAN :
       arg = [fn |-> "parseWingetOutput",
              output |-> WingetOutput([isPinned |-> ip, requiresExplicit |-> re, lines |-> l],
                                      more)]
  /\ result = NoResult
  /\ ua = NoUpdateAll
  /\ wg = NoWinget
  /\ gsudoAvailable = "null"
  /\ hostGsudo = FALSE

parseWingetOutputReturns ==
  /\ arg.fn = "parseWingetOutput"
  /\ ~result.done
  /\ result' = [done |-> TRUE, value |-> parseWingetOutput(arg.output)]
  /\ UNCHANGED <<mainVars, diskFile, defaultProviders, arg, ua, wg, gsudoAvailable, hostGsudo>>

NextWingetParser == parseWingetOutputReturns

SpecWingetParser == InitWinget /\ [][NextWingetParser]_vars

\* the data rows of the first section that the loop reaches and that carry an
\* id and an available version differing from the current one
FirstBreak(lines) ==
  IF \E i \in 1..Len(lines) : lines[i].kind \in {"blank", "summary"}
  THEN CHOOSE i \in 1..Len(lines) :
         /\ lines[i].kind \in {"blank", "summary"}
         /\ \A j \in 1..(i - 1) : lines[j].kind \notin {"blank", "summary"}
  ELSE Len(lines) + 1

DataRows(section) ==
  SelectSeq(SubSeq(section.lines, 1, FirstBreak(section.lines) - 1),
            LAMBDA l : /\ l.kind = "row"
                       /\ l.id \notin {"", "Id"}
                       /\ l.available # ""
                       /\ l.version # l.available)

UnknownColumn(text) == text \in {"", "unknown", "Unknown"}

\* C16 as claimed: every data row whose current-version column is empty or
\* "unknown" in any letter case yields a record with status "unknown", notes
\* "Current version unknown" and currentVersion the lower-case "unknown".
C16_UnknownNormalized ==
  result.done /\ arg.fn = "parseWingetOutput" =>
    LET rows == DataRows(arg.output[1])
    IN /\ Len(result.value) >= Len(rows)
       /\ \A j \in 1..Len(rows) :
            UnknownColumn(rows[j].version) =>
              /\ result.value[j].id = rows[j].id
              /\ result.value[j].status = "unknown"
              /\ result.value[j].notes = "Current version unknown"
              /\ result.value[j].currentVersion = "unknown"

\* C16 amended: ... and currentVersion the literal "unknown" when the column
\* is empty, the column's text as printed otherwise.
C16_UnknownKeepsColumnText ==
  result.done /\ arg.fn = "parseWingetOutput" =>
    LET rows == DataRows(arg.output[1])
    IN /\ Len(result.value) >= Len(rows)
       /\ \A j \in 1..Len(rows) :
            UnknownColumn(rows[j].version) =>
              /\ result.value[j].id = rows[j].id
              /\ result.value[j].status = "unknown"
              /\ result.value[j].notes = "Current version unknown"
              /\ result.value[j].currentVersion =
                   IF rows[j].version = "" THEN "unknown" ELSE rows[j].version

\* C16 witness: a pinned section with a row printed "Unknown" after a row with
\* an empty version column, both parsed.
C16_Witness ==
  /\ result.done
  /\ arg.fn = "parseWingetOutput"
  /\ arg.output[1].isPinned
  /\ Len(result.value) = 2
  /\ arg.output[1].lines[1].version = ""
  /\ arg.output[1].lines[2].version = "Unknown"
  /\ result.value[1].currentVersion = "unknown"
  /\ result.value[2].status = "unknown"

\* the output consists of sections announced by a pin marker only
AllPinned(output) == \A s \in 1..Len(output) : output[s].isPinned

MaxCells == 4

ProtoTokens == {"node", "Tool", "1.0", "2.0", "->", "box"}
VersionTokens == {"1.0", "2.0"}
Gaps == {1, 2}

RECURSIVE ProtoLines(_)
ProtoLines(n) ==
  IF n = 0 THEN {<<>>}
  ELSE LET shorter == ProtoLines(n - 1)
       IN shorter \cup
          {Append(l, [text |-> t, gap |-> g]) :
             l \in {x \in shorter : Len(x) = n - 1}, t \in ProtoTokens, g \in Gaps}

\* a row of the table "proto outdated" prints: Tool, Current, Newest, Latest
TableRow ==
  <<[text |-> "box", gap |-> 1], [text |-> "bun", gap |-> 1], [text |-> "1.3.5", gap |-> 2],
    [text |-> "1.3.6", gap |-> 2], [text |-> "1.3.6", gap |-> 2], [text |-> "box", gap |-> 1]>>

Min(a, b) == IF a <= b THEN a ELSE b

\* line.replace(/[box-drawing characters]/g, ""): the white space on both sides of a removed
\* character runs together
RECURSIVE RemoveBox(_, _, _)
RemoveBox(line, i, carried) ==
  IF i > Len(line) THEN <<>>
  ELSE IF line[i].text = "box"
       THEN RemoveBox(line, i + 1, Min(2, carried + line[i].gap))
       ELSE <<[text |-> line[i].text, gap |-> Min(2, carried + line[i].gap)]>>
            \o RemoveBox(line, i + 1, 0)

\* cleaned.split(/\s{2,}/).filter(Boolean): a part is a run of cells with
\* single spaces between them, given as the list of its texts
RECURSIVE SplitWide(_, _)
SplitWide(cleaned, i) ==
  IF i > Len(cleaned) THEN <<>>
  ELSE LET rest == SplitWide(cleaned, i + 1)
       IN IF i < Len(cleaned) /\ cleaned[i + 1].gap < 2
          THEN <<<<cleaned[i].text>> \o rest[1]>> \o Tail(rest)
          ELSE <<<<cleaned[i].text>>>> \o rest

\* newest.match(/^[\d.]+/)
StartsWithVersion(part) == part[1] \in VersionTokens \cup {"1.3.5", "1.3.6"}

\* the loop body for one line
ParseProtoLine(line) ==
  LET cleaned == RemoveBox(line, 1, 0)
      parts == SplitWide(cleaned, 1)
  IN IF Len(cleaned) = 0 THEN <<>>
     ELSE IF cleaned[1].text = "Tool" THEN <<>>
     ELSE IF Len(parts) >= 4
     THEN LET tool == parts[1]
              current == parts[2]
              newest == parts[3]
          IN IF tool = <<"Tool">> THEN <<>>
             ELSE IF current # newest /\ StartsWithVersion(newest)
             THEN <<[id |-> tool, name |-> tool, currentVersion |-> current,
                     newVersion |-> newest, status |-> "available"]>>
             ELSE <<>>
     ELSE <<>>

RECURSIVE ParseProtoLines(_, _)
ParseProtoLines(lines, i) ==
  IF i > Len(lines) THEN <<>>
  ELSE ParseProtoLine(lines[i]) \o ParseProtoLines(lines, i + 1)

parseProtoOutput(output) == ParseProtoLines(output, 1)

InitProto ==
  /\ MainIdle
  /\ diskFile = NoDisk
  /\ defaultProviders = DEFAULT_PROVIDERS
  /\ \E line \in ProtoLines(MaxCells), more \in BOOLEAN :
       arg = [fn |-> "parseProtoOutput",
              output |-> IF more THEN <<line, TableRow>> ELSE <<line>>]
  /\ result = NoResult
  /\ ua = NoUpdateAll
  /\ wg = NoWinget
  /\ gsudoAvailable = "null"
  /\ hostGsudo = FALSE

parseProtoOutputReturns ==
  /\ arg.fn = "parseProtoOutput"
  /\ ~result.done
  /\ result' = [done |-> TRUE, value |-> parseProtoOutput(arg.output)]
  /\ UNCHANGED <<mainVars, diskFile, defaultProviders, arg, ua, wg, gsudoAvailable, hostGsudo>>

NextProto == parseProtoOutputReturns

SpecProto == InitProto /\ [][NextProto]_vars

\* <word><version><arrow><version>
ArrowForm(line) ==
  /\ Len(line) = 4
  /\ line[1].text = "node"
  /\ line[2].text \in {"1.0", "2.0"}
  /\ line[3].text = "->"
  /\ line[4].text \in {"1.0", "2.0"}

\* C17: every line of the form <word><version><arrow><version> yields one
\* record with id = name = the word, the two versions as currentVersion and
\* newVersion, and status "available", whatever other lines follow it.
C17_ArrowLinesParsed ==
  result.done /\ arg.fn = "parseProtoOutput" /\ ArrowForm(arg.output[1]) =>
    /\ Len(result.value) >= 1
    /\ result.value[1] = [id |-> <<"node">>, name |-> <<"node">>,
                          currentVersion |-> <<arg.output[1][2].text>>,
                          newVersion |-> <<arg.output[1][4].text>>,
                          status |-> "available"]

\* ------------------------------------------------------------------------
\* parseNpmJsonOutput (parsers.ts): the payload is what JSON.parse makes of
\* the text: a syntax error, null, or an object whose values are null or
\* objects with the fields current and latest (absent or a string).
\* ------------------------------------------------------------------------
MaxKeys == 2

JsonKeys == {"a", "b"}

Undefined == [has |-> FALSE]

JsonFields == {Undefined} \cup {[has |-> TRUE, text |-> t] : t \in {"", "1.0", "2.0"}}

JsonNull == [kind |-> "null"]

JsonValues ==
  {JsonNull} \cup {[kind |-> "object", current |-> c, latest |-> l] :
                     c \in JsonFields, l \in JsonFields}

\* the entries of an object, in insertion order, each key once
RECURSIVE JsonEntries(_)
JsonEntries(n) ==
  IF n = 0 THEN {<<>>}
  ELSE LET shorter == JsonEntries(n - 1)
       IN shorter \cup
          {Append(e, [key |-> k, value |-> v]) :
             e \in {s \in shorter : Len(s) = n - 1},
             k \in JsonKeys, v \in JsonValues}

DistinctKeys(entries) ==
  \A i, j \in 1..Len(entries) : entries[i].key = entries[j].key => i = j

\* a string is truthy when it is present and not empty
Truthy(field) == field.has /\ field.text # ""

\* the loop of the try block: the records pushed so far, and whether reading
\* a field of null raised a TypeError
RECURSIVE ParseNpmEntries(_, _, _)
ParseNpmEntries(entries, i, pushed) ==
  IF i > Len(entries) THEN [updates |-> pushed, threw |-> FALSE]
  ELSE LET name == entries[i].key
           pkg == entries[i].value
       IN IF pkg.kind = "null" THEN [updates |-> pushed, threw |-> TRUE]
          ELSE IF Truthy(pkg.current) /\ Truthy(pkg.latest)
                  /\ pkg.current # pkg.latest
          THEN ParseNpmEntries(entries, i + 1,
                 Append(pushed, [id |-> name, name |-> name,
                                  currentVersion |-> pkg.current.text,
                                  newVersion |-> pkg.latest.text,
                                  status |-> "available"]))
          ELSE ParseNpmEntries(entries, i + 1, pushed)

\* JSON.parse and Object.entries inside the try block
TryBlock(data) ==
  IF data.kind = "invalid" THEN [updates |-> <<>>, threw |-> TRUE]
  ELSE IF data.kind = "null" THEN [updates |-> <<>>, threw |-> TRUE]
  ELSE ParseNpmEntries(data.entries, 1, <<>>)

CatchPropagates(outcome) ==
  [done |-> TRUE, value |-> outcome.updates, threw |-> outcome.threw]

\* catch { } swallows the exception; the records pushed before it stay
CatchBlock(outcome) ==
  [done |-> TRUE, value |-> outcome.updates, threw |-> FALSE]

parseNpmJsonOutput(data) == CatchBlock(TryBlock(data))

InitNpmJson ==
  /\ MainIdle
  /\ diskFile = NoDisk
  /\ defaultProviders = DEFAULT_PROVIDERS
  /\ \/ \E kind \in {"invalid", "null"} :
          arg = [fn |-> "parseNpmJsonOutput", data |-> [kind |-> kind]]
     \/ \E entries \in JsonEntries(MaxKeys) :
          /\ DistinctKeys(entries)
          /\ arg = [fn |-> "parseNpmJsonOutput",
                    data |-> [kind |-> "object", entries |-> entries]]
  /\ result = NoResult
  /\ ua = NoUpdateAll
  /\ wg = NoWinget
  /\ gsudoAvailable = "null"
  /\ hostGsudo = FALSE

parseNpmJsonOutputReturns ==
  /\ arg.fn = "parseNpmJsonOutput"
  /\ ~result.done
  /\ result' = parseNpmJsonOutput(arg.data)
  /\ UNCHANGED <<mainVars, diskFile, defaultProviders, arg, ua, wg, gsudoAvailable, hostGsudo>>

NextNpmJson == parseNpmJsonOutputReturns

SpecNpmJson == InitNpmJson /\ [][NextNpmJson]_vars

\* every value of the object carries string fields current and latest
StringFields(data) ==
  /\ data.kind = "object"
  /\ \A i \in 1..Len(data.entries) :
       /\ data.entries[i].value.kind = "object"
       /\ data.entries[i].value.current.has
       /\ data.entries[i].value.latest.has

NonEmptyStringFields(data) ==
  /\ StringFields(data)
  /\ \A i \in 1..Len(data.entries) :
       /\ data.entries[i].value.current.text # ""
       /\ data.entries[i].value.latest.text # ""

\* the records the claim expects: one per key whose versions differ, in order
RECURSIVE Differing(_, _)
Differing(entries, i) ==
  IF i > Len(entries) THEN <<>>
  ELSE (IF entries[i].value.current.text # entries[i].value.latest.text
        THEN <<[id |-> entries[i].key, name |-> entries[i].key,
                currentVersion |-> entries[i].value.current.text,
                newVersion |-> entries[i].value.latest.text,
                status |-> "available"]>>
        ELSE <<>>) \o Differing(entries, i + 1)

NpmReturned == result.done /\ arg.fn = "parseNpmJsonOutput"

\* C18 as stated: parseNpmJsonOutput never throws; for an object whose values
\* carry string fields current and latest it returns exactly one available
\* record per key whose current differs from latest and none for the other
\* keys; for a syntactically invalid payload it returns the empty list.
C18_NpmJsonAsClaimed ==
  NpmReturned =>
    /\ ~result.threw
    /\ StringFields(arg.data) => result.value = Differing(arg.data.entries, 1)
    /\ arg.data.kind = "invalid" => result.value = <<>>

\* C18 amended: the same, for objects whose current and latest are non-empty
\* strings; a key with an empty current or latest yields no record.
C18_NpmJsonNonEmptyFields ==
  NpmReturned =>
    /\ ~result.threw
    /\ NonEmptyStringFields(arg.data) =>
         result.value = Differing(arg.data.entries, 1)
    /\ arg.data.kind = "invalid" => result.value = <<>>
    /\ \A i \in 1..Len(result.value) :
         result.value[i].currentVersion # "" /\ result.value[i].newVersion # ""

C18_Witness ==
  /\ NpmReturned
  /\ NonEmptyStringFields(arg.data)
  /\ Len(arg.data.entries) = 2
  /\ Len(result.value) = 1

\* ------------------------------------------------------------------------
\* loadConfig (config.ts) over what is on disk: the file is missing, is not
\* JSON, fails ConfigSchema, or passes it.
\* ------------------------------------------------------------------------
ProviderMaps ==
  UNION {[ids -> BOOLEAN] : ids \in SUBSET AllProviderIds}

ValidFiles ==
  [providers : ProviderMaps,
   ignoredPackages : {<<>>, <<"a">>},
   installedVersions : {EmptyMap, [k \in {"a"} |-> "1.0"]}]

DiskStates ==
  {[kind |-> k] : k \in {"missing", "unparseable", "invalid"}}
    \cup {[kind |-> "valid", file |-> f] : f \in ValidFiles}

\* the catch block: { providers: { ...DEFAULT_PROVIDERS } }, the optional
\* fields absent
DefaultConfig ==
  [providers |-> DEFAULT_PROVIDERS, ignoredPackages |-> <<>>,
   installedVersions |-> EmptyMap]

loadConfigKeepsFile(disk) ==
  IF disk.kind = "valid"
  THEN [done |-> TRUE, value |-> disk.file, threw |-> FALSE]
  ELSE [done |-> TRUE, value |-> DefaultConfig, threw |-> FALSE]

\* readFile, JSON.parse and ConfigSchema.parse each throw into the catch
loadConfigFromDisk(disk) ==
  IF disk.kind = "valid"
  THEN [done |-> TRUE, value |-> loadConfig(disk.file), threw |-> FALSE]
  ELSE [done |-> TRUE, value |-> DefaultConfig, threw |-> FALSE]

InitLoadConfig ==
  /\ MainIdle
  /\ diskFile = NoDisk
  /\ defaultProviders = DEFAULT_PROVIDERS
  /\ \E disk \in DiskStates : arg = [fn |-> "loadConfig", disk |-> disk]
  /\ result = NoResult
  /\ ua = NoUpdateAll
  /\ wg = NoWinget
  /\ gsudoAvailable = "null"
  /\ hostGsudo = FALSE

loadConfigReturns ==
  /\ arg.fn = "loadConfig"
  /\ ~result.done
  /\ result' = loadConfigFromDisk(arg.disk)
  /\ UNCHANGED <<mainVars, diskFile, defaultProviders, arg, ua, wg, gsudoAvailable, hostGsudo>>

NextLoadConfig == loadConfigReturns

SpecLoadConfig == InitLoadConfig /\ [][NextLoadConfig]_vars

MaxCalls == 2

WingetIdle ==
  [pc |-> "idle", calls |-> 0, packageId |-> "a", force |-> FALSE,
   ran |-> <<>>, success |-> FALSE, returned |-> FALSE]

InitWingetUpdate ==
  /\ MainIdle
  /\ diskFile = NoDisk
  /\ defaultProviders = DEFAULT_PROVIDERS
  /\ arg = NoArg
  /\ result = NoResult
  /\ ua = NoUpdateAll
  /\ wg = WingetIdle
  /\ gsudoAvailable = "null"
  /\ hostGsudo \in BOOLEAN

WantsElevationUnforced(w) == ~w.success

\* !result.success && options?.force
WantsElevation(w) == ~w.success /\ w.force

\* updatePackage(packageId, options): wingetArgs built
wingetUpdatePackageCalled ==
  /\ wg.pc \in {"idle", "DONE"}
  /\ wg.calls < MaxCalls
  /\ \E packageId \in PkgIds, force \in BOOLEAN :
       wg' = [pc |-> "NOT_ATTEMPTED", calls |-> wg.calls + 1,
              packageId |-> packageId, force |-> force, ran |-> <<>>,
              success |-> FALSE, returned |-> FALSE]
  /\ UNCHANGED <<mainVars, diskFile, defaultProviders, arg, result, ua, gsudoAvailable, hostGsudo>>

\* let result = await runCommand(wingetArgs)
runsUnprivileged ==
  /\ wg.pc = "NOT_ATTEMPTED"
  /\ \E success \in BOOLEAN :
       wg' = [wg EXCEPT !.pc = "TRIED_UNPRIVILEGED", !.success = success,
                !.ran = Append(@, [gsudo |-> FALSE, id |-> wg.packageId,
                                   force |-> wg.force, success |-> success])]
  /\ UNCHANGED <<mainVars, diskFile, defaultProviders, arg, result, ua, gsudoAvailable, hostGsudo>>

\* hasGsudo(): the probe runs once per instance and is cached
hasGsudoProbes ==
  /\ wg.pc = "TRIED_UNPRIVILEGED"
  /\ WantsElevation(wg)
  /\ gsudoAvailable = "null"
  /\ gsudoAvailable' = IF hostGsudo THEN "true" ELSE "false"
  /\ UNCHANGED <<mainVars, diskFile, defaultProviders, arg, result, ua, wg, hostGsudo>>

\* result = await runCommand(["gsudo", ...wingetArgs])
runsElevated ==
  /\ wg.pc = "TRIED_UNPRIVILEGED"
  /\ WantsElevation(wg)
  /\ gsudoAvailable = "true"
  /\ \E success \in BOOLEAN :
       wg' = [wg EXCEPT !.pc = "TRIED_ELEVATED", !.success = success,
                !.ran = Append(@, [gsudo |-> TRUE, id |-> wg.packageId,
                                   force |-> wg.force, success |-> success])]
  /\ UNCHANGED <<mainVars, diskFile, defaultProviders, arg, result, ua, gsudoAvailable, hostGsudo>>

\* return result.success
wingetUpdatePackageReturns ==
  /\ \/ wg.pc = "TRIED_ELEVATED"
     \/ /\ wg.pc = "TRIED_UNPRIVILEGED"
        /\ ~WantsElevation(wg) \/ gsudoAvailable = "false"
  /\ wg' = [wg EXCEPT !.pc = "DONE", !.returned = wg.success]
  /\ UNCHANGED <<mainVars, diskFile, defaultProviders, arg, result, ua, gsudoAvailable, hostGsudo>>

\* gsudo is installed or removed while the program runs
hostGsudoChanges ==
  /\ wg.pc # "idle"
  /\ hostGsudo' = ~hostGsudo
  /\ UNCHANGED <<mainVars, diskFile, defaultProviders, arg, result, ua, wg, gsudoAvailable>>

NextWingetUpdate ==
  \/ wingetUpdatePackageCalled
  \/ runsUnprivileged
  \/ hasGsudoProbes
  \/ runsElevated
  \/ wingetUpdatePackageReturns
  \/ hostGsudoChanges

SpecWingetUpdate == InitWingetUpdate /\ [][NextWingetUpdate]_vars

\* the commands of the current call, as the claim counts them
AttemptsAsClaimed ==
  /\ Len(wg.ran) <= 2
  /\ wg.pc = "NOT_ATTEMPTED" => wg.ran = <<>>
  /\ wg.pc \in {"TRIED_UNPRIVILEGED", "TRIED_ELEVATED", "DONE"} =>
       Len(wg.ran) >= 1 /\ ~wg.ran[1].gsudo
  /\ wg.pc = "TRIED_UNPRIVILEGED" => Len(wg.ran) = 1
  /\ wg.pc = "TRIED_ELEVATED" => Len(wg.ran) = 2
  /\ Len(wg.ran) = 2 =>
       /\ wg.ran[2].gsudo
       /\ ~wg.ran[1].success
       /\ wg.force
       /\ gsudoAvailable = "true"
  /\ \A i \in 1..Len(wg.ran) :
       wg.ran[i].id = wg.packageId /\ wg.ran[i].force = wg.force
  /\ wg.pc = "DONE" => wg.returned = wg.ran[Len(wg.ran)].success

StatesAsClaimed ==
  wg'.pc # wg.pc =>
    \/ wg'.pc = "NOT_ATTEMPTED" /\ wg.pc \in {"idle", "DONE"}
    \/ wg.pc = "NOT_ATTEMPTED" /\ wg'.pc = "TRIED_UNPRIVILEGED"
    \/ wg.pc = "TRIED_UNPRIVILEGED" /\ wg'.pc \in {"TRIED_ELEVATED", "DONE"}
    \/ wg.pc = "TRIED_ELEVATED" /\ wg'.pc = "DONE"

\* C20: a call of WingetProvider.updatePackage goes NOT_ATTEMPTED ->
\* TRIED_UNPRIVILEGED -> DONE, with TRIED_ELEVATED between the last two at
\* most once; it runs the unprivileged command once, the gsudo-wrapped command
\* at most once and only after the unprivileged run failed with force set and
\* gsudo detected, no third command, and returns the success of the last
\* command it ran.
C20_ElevationStateMachine ==
  /\ []AttemptsAsClaimed
  /\ [][StatesAsClaimed]_vars

\* a forced call whose unprivileged run failed and whose elevated run succeeded
C20_Witness ==
  /\ wg.pc = "DONE"
  /\ Len(wg.ran) = 2
  /\ wg.returned

\* ------------------------------------------------------------------------
\* checkUpdates of the providers (winget.ts, npm.ts, psmodules.ts,
\* moonrepo.ts): what each returns for the results of the commands it runs.
\* A result is the exit status and the trimmed stdout; stdout is empty or is
\* a text in the form its parser reads.
\* ------------------------------------------------------------------------
MaxLines == 2

EmptyStdout == [empty |-> TRUE]

Stdout(text) == [empty |-> FALSE, text |-> text]

\* lines of "name|current|latest", each cell trimmed; a missing cell is ""
PsLines ==
  [name : {"", "Mod"}, current : {"", "1.0", "2.0"}, latest : {"", "1.0", "2.0"}]

RECURSIVE PsLineLists(_)
PsLineLists(n) ==
  IF n = 0 THEN {<<>>}
  ELSE LET shorter == PsLineLists(n - 1)
       IN shorter \cup
          {Append(l, x) : l \in {y \in shorter : Len(y) = n - 1}, x \in PsLines}

RECURSIVE parsePsModulesOutput(_)
parsePsModulesOutput(lines) ==
  IF lines = <<>> THEN <<>>
  ELSE LET line == Head(lines)
       IN (IF line.name # "" /\ line.current # "" /\ line.latest # ""
           THEN <<[id |-> line.name, name |-> line.name,
                   currentVersion |-> line.current, newVersion |-> line.latest,
                   status |-> "available"]>>
           ELSE <<>>) \o parsePsModulesOutput(Tail(lines))

ListingProviders == {"winget", "npm", "psmodules"}

\* the outputs of the listing command of provider p
ListingTexts(p) ==
  CASE p = "winget" ->
         {WingetOutput([isPinned |-> FALSE, requiresExplicit |-> FALSE, lines |-> l],
                       more) :
            l \in WingetLineLists(1) \ {<<>>}, more \in BOOLEAN}
    [] p = "npm" ->
         {[kind |-> k] : k \in {"invalid", "null"}}
           \cup {[kind |-> "object", entries |-> e] : e \in JsonEntries(1)}
    [] p = "psmodules" -> PsLineLists(MaxLines) \ {<<>>}

\* the parser of provider p applied to result.stdout
ParseStdout(p, stdout) ==
  CASE p = "winget" ->
         parseWingetOutput(IF stdout.empty THEN <<>> ELSE stdout.text)
    [] p = "npm" ->
         parseNpmJsonOutput(IF stdout.empty THEN [kind |-> "invalid"]
                            ELSE stdout.text).value
    [] p = "psmodules" ->
         parsePsModulesOutput(IF stdout.empty THEN <<>> ELSE stdout.text)

\* the early return of each checkUpdates
ReturnsEarly(p, run) ==
  IF p = "npm" THEN run.stdout.empty
  ELSE ~run.success /\ run.stdout.empty

RECURSIVE CreateUpdates(_, _)
CreateUpdates(p, parsed) ==
  IF parsed = <<>> THEN <<>>
  ELSE LET pkg == Head(parsed)
       IN <<createUpdate(pkg.id, pkg.currentVersion, pkg.newVersion, p, pkg.status)>>
            \o CreateUpdates(p, Tail(parsed))

checkUpdates(p, run) ==
  IF ReturnsEarly(p, run) THEN <<>>
  ELSE CreateUpdates(p, ParseStdout(p, run.stdout))

\* MoonrepoProvider: the matches of /(\d+\.\d+\.\d+)/g in an output, in order
MoonVersions == {"1.0.0", "1.1.0"}

RECURSIVE MoonMatches(_)
MoonMatches(n) ==
  IF n = 0 THEN {<<>>}
  ELSE LET shorter == MoonMatches(n - 1)
       IN shorter \cup
          {Append(l, x) : l \in {y \in shorter : Len(y) = n - 1}, x \in MoonVersions}

\* outputs of moon --version and of moon upgrade --check: the versions they
\* mention and whether they contain "available" or "new version"
MoonTexts == [matches : MoonMatches(MaxLines), announces : BOOLEAN]

Null == [null |-> TRUE]

parseVersion(stdout) ==
  IF stdout.empty \/ stdout.text.matches = <<>> THEN Null
  ELSE [null |-> FALSE, text |-> stdout.text.matches[1]]

extractNewVersion(stdout) ==
  IF stdout.empty \/ stdout.text.matches = <<>> THEN Null
  ELSE [null |-> FALSE, text |-> stdout.text.matches[Len(stdout.text.matches)]]

MoonrepoCheckUpdates(versionResult, checkResult) ==
  IF ~versionResult.success THEN <<>>
  ELSE LET currentVersion == parseVersion(versionResult.stdout)
       IN IF currentVersion.null THEN <<>>
          ELSE IF ~checkResult.stdout.empty /\ checkResult.stdout.text.announces
          THEN LET found == extractNewVersion(checkResult.stdout)
                   newVersion == IF found.null THEN "latest" ELSE found.text
               IN <<createUpdate("moon", currentVersion.text, newVersion,
                                 "moonrepo", "available")>>
          ELSE <<>>

CommandResults(texts) ==
  [success : BOOLEAN, stdout : {EmptyStdout} \cup {Stdout(t) : t \in texts}]

InitCheckUpdates ==
  /\ MainIdle
  /\ diskFile = NoDisk
  /\ defaultProviders = DEFAULT_PROVIDERS
  /\ \/ \E p \in ListingProviders : \E run \in CommandResults(ListingTexts(p)) :
          arg = [fn |-> "checkUpdates", provider |-> p, runs |-> <<run>>]
     \/ \E versionResult \in CommandResults(MoonTexts),
           checkResult \in CommandResults(MoonTexts) :
          arg = [fn |-> "checkUpdates", provider |-> "moonrepo",
                 runs |-> <<versionResult, checkResult>>]
  /\ result = NoResult
  /\ ua = NoUpdateAll
  /\ wg = NoWinget
  /\ gsudoAvailable = "null"
  /\ hostGsudo = FALSE

CheckUpdatesOf(p, runs) ==
  IF p = "moonrepo" THEN MoonrepoCheckUpdates(runs[1], runs[2])
  ELSE checkUpdates(p, runs[1])

listingCheckUpdatesReturns ==
  /\ arg.fn = "checkUpdates"
  /\ arg.provider \in ListingProviders
  /\ ~result.done
  /\ result' = [done |-> TRUE, value |-> checkUpdates(arg.provider, arg.runs[1])]
  /\ UNCHANGED <<mainVars, diskFile, defaultProviders, arg, ua, wg, gsudoAvailable, hostGsudo>>

moonrepoCheckUpdatesReturns ==
  /\ arg.fn = "checkUpdates"
  /\ arg.provider = "moonrepo"
  /\ ~result.done
  /\ result' = [done |-> TRUE,
                value |-> MoonrepoCheckUpdates(arg.runs[1], arg.runs[2])]
  /\ UNCHANGED <<mainVars, diskFile, defaultProviders, arg, ua, wg, gsudoAvailable, hostGsudo>>

NextCheckUpdates ==
  \/ listingCheckUpdatesReturns
  \/ moonrepoCheckUpdatesReturns

SpecCheckUpdates == InitCheckUpdates /\ [][NextCheckUpdates]_vars

\* the same results with every exit status zero
ExitZero(runs) == [i \in DOMAIN runs |-> [runs[i] EXCEPT !.success = TRUE]]

CheckUpdatesReturned == result.done /\ arg.fn = "checkUpdates"

\* C12: for every provider, a command that exits non-zero with non-empty
\* stdout is treated as one that exits zero with that stdout: the stdout is
\* parsed and the parsed records are returned; a failed command with empty
\* stdout gives the empty list.
C12_NonZeroExitStillParsed ==
  CheckUpdatesReturned =>
    /\ (\A i \in DOMAIN arg.runs : ~arg.runs[i].stdout.empty) =>
         result.value = CheckUpdatesOf(arg.provider, ExitZero(arg.runs))
    /\ ~arg.runs[1].success /\ arg.runs[1].stdout.empty => result.value = <<>>

\* C13: no record returned by a provider's checkUpdates, and so by the parser
\* it calls, has currentVersion textually equal to newVersion.
C13_VersionsDiffer ==
  CheckUpdatesReturned =>
    \A i \in 1..Len(result.value) :
      result.value[i].currentVersion # result.value[i].newVersion

\* ------------------------------------------------------------------------
\* parseWingetOutput, the scan for sections: the output is the list of its
\* lines, each of one kind; a pin marker line contains "pin that needs" or
\* "pins that prevent", an explicit marker line "explicit targeting" or
\* "require explicit".
\* ------------------------------------------------------------------------
MaxBefore == 11

MaxLead == 2

ScanWindow == 10

MarkerKinds == {"pin", "explicit"}

Repeat(line, n) == [k \in 1..n |-> line]

\* lead filler lines, one marker line or one more filler line, gap filler
\* lines, then the header row and its separator
OutputWithMarker(filler, marked, lead, gap) ==
  Repeat(filler, lead) \o <<marked>> \o Repeat(filler, gap) \o <<"header", "dashes">>

\* isPinned / requiresExplicit of the separator at index i (from 1): the
\* lines from Math.max(0, i - 10) to i - 1 of the code, both counted from 0
MarkerSeen(lines, i, marker) ==
  \E j \in Max(1, i - ScanWindow)..(i - 1) : lines[j] = marker

RECURSIVE FindSections(_, _)
FindSections(lines, i) ==
  IF i > Len(lines) THEN <<>>
  ELSE (IF lines[i] = "dashes" /\ i > 1 /\ lines[i - 1] = "header"
        THEN <<[headerIndex |-> i - 1, separatorIndex |-> i,
                isPinned |-> MarkerSeen(lines, i, "pin"),
                requiresExplicit |-> MarkerSeen(lines, i, "explicit")]>>
        ELSE <<>>) \o FindSections(lines, i + 1)

InitSections ==
  /\ MainIdle
  /\ diskFile = NoDisk
  /\ defaultProviders = DEFAULT_PROVIDERS
  /\ \E filler \in {"blank", "text"}, marked \in MarkerKinds \cup {"text"},
        lead \in 0..MaxLead, gap \in 0..MaxBefore :
       arg = [fn |-> "findSections",
              lines |-> OutputWithMarker(filler, marked, lead, gap)]
  /\ result = NoResult
  /\ ua = NoUpdateAll
  /\ wg = NoWinget
  /\ gsudoAvailable = "null"
  /\ hostGsudo = FALSE

findSectionsReturns ==
  /\ arg.fn = "findSections"
  /\ ~result.done
  /\ result' = [done |-> TRUE, value |-> FindSections(arg.lines, 1)]
  /\ UNCHANGED <<mainVars, diskFile, defaultProviders, arg, ua, wg, gsudoAvailable, hostGsudo>>

NextSections == findSectionsReturns

SpecSections == InitSections /\ [][NextSections]_vars

\* marker occurs on one of the up to 10 lines immediately before the header
WithinTenBefore(lines, headerIndex, marker) ==
  \E j \in 1..(headerIndex - 1) : headerIndex - j <= 10 /\ lines[j] = marker

\* C22: a section is annotated pinned (requires explicit targeting) if and
\* only if a pin (explicit) marker is on one of the up to 10 lines immediately
\* preceding its header row: on the 10th line before the header it is
\* detected, on the 11th it is not.
C22_TenLinesBeforeHeader ==
  result.done /\ arg.fn = "findSections" =>
    /\ Len(result.value) = 1
    /\ LET section == result.value[1]
       IN /\ section.isPinned <=>
               WithinTenBefore(arg.lines, section.headerIndex, "pin")
          /\ section.requiresExplicit <=>
               WithinTenBefore(arg.lines, section.headerIndex, "explicit")

\* ------------------------------------------------------------------------
\* parsePnpmTableOutput (parsers.ts): lines as lists of cells, as for
\* parseProtoOutput; "rule" is a run of horizontal box-drawing characters.
\* ------------------------------------------------------------------------
PnpmTokens == {"pkg", "Package", "1.0", "2.0", "rule"}

RECURSIVE PnpmLines(_)
PnpmLines(n) ==
  IF n = 0 THEN {<<>>}
  ELSE LET shorter == PnpmLines(n - 1)
       IN shorter \cup
          {Append(l, [text |-> t, gap |-> g]) :
             l \in {x \in shorter : Len(x) = n - 1}, t \in PnpmTokens,
             g \in IF n = 1 THEN {0} ELSE Gaps}

\* a row as pnpm prints it: Package, Current, Wanted, Latest
PnpmRow ==
  <<[text |-> "b", gap |-> 0], [text |-> "1.0", gap |-> 2],
    [text |-> "1.0", gap |-> 2], [text |-> "2.0", gap |-> 2]>>

\* !line.trim() || line.includes("Package") || line.startsWith(rule)
PnpmSkipped(line) ==
  \/ Len(line) = 0
  \/ \E i \in 1..Len(line) : line[i].text = "Package"
  \/ line[1].text = "rule"

\* line.split(/\s+/).filter(Boolean): every cell is a part
SplitAnySpace(line) == [i \in 1..Len(line) |-> <<line[i].text>>]

PnpmRecord(parts) ==
  IF Len(parts) >= 4 /\ parts[2] # parts[4]
  THEN <<[id |-> parts[1], name |-> parts[1], currentVersion |-> parts[2],
          newVersion |-> parts[4], status |-> "available"]>>
  ELSE <<>>

RECURSIVE parsePnpmTableOutput(_)
parsePnpmTableOutput(lines) ==
  IF lines = <<>> THEN <<>>
  ELSE LET line == Head(lines)
           parts == SplitAnySpace(line)
       IN (IF PnpmSkipped(line) THEN <<>>
           ELSE IF Len(parts) >= 3 THEN PnpmRecord(parts)
           ELSE <<>>) \o parsePnpmTableOutput(Tail(lines))

InitPnpmTable ==
  /\ MainIdle
  /\ diskFile = NoDisk
  /\ defaultProviders = DEFAULT_PROVIDERS
  /\ \E line \in PnpmLines(MaxCells), more \in BOOLEAN :
       arg = [fn |-> "parsePnpmTableOutput",
              output |-> IF more THEN <<line, PnpmRow>> ELSE <<line>>]
  /\ result = NoResult
  /\ ua = NoUpdateAll
  /\ wg = NoWinget
  /\ gsudoAvailable = "null"
  /\ hostGsudo = FALSE

parsePnpmTableOutputReturns ==
  /\ arg.fn = "parsePnpmTableOutput"
  /\ ~result.done
  /\ result' = [done |-> TRUE, value |-> parsePnpmTableOutput(arg.output)]
  /\ UNCHANGED <<mainVars, diskFile, defaultProviders, arg, ua, wg, gsudoAvailable, hostGsudo>>

NextPnpmTable == parsePnpmTableOutputReturns

SpecPnpmTable == InitPnpmTable /\ [][NextPnpmTable]_vars

\* the records the claim expects: tokens are separated by two or more white
\* space characters, the second is the current and the fourth the latest
RECURSIVE TokenizedOnWideGaps(_)
TokenizedOnWideGaps(lines) ==
  IF lines = <<>> THEN <<>>
  ELSE LET line == Head(lines)
           tokens == SplitWide(line, 1)
       IN (IF PnpmSkipped(line) THEN <<>>
           ELSE IF Len(tokens) >= 4 /\ tokens[2] # tokens[4]
           THEN <<[id |-> tokens[1], name |-> tokens[1],
                   currentVersion |-> tokens[2], newVersion |-> tokens[4],
                   status |-> "available"]>>
           ELSE <<>>) \o TokenizedOnWideGaps(Tail(lines))

\* C23: parsePnpmTableOutput splits each non-header line on runs of at least
\* two white space characters (a single space does not split a token), takes
\* the second token as the current and the fourth as the latest version and
\* emits a record when they differ.
C23_PnpmTokensOnWideGaps ==
  result.done /\ arg.fn = "parsePnpmTableOutput" =>
    result.value = TokenizedOnWideGaps(arg.output)

\* C24: when performUpdates returns, updated + failed + skipped equals the
\* number of records it was given: every input record is counted in exactly
\* one of the three totals.
C24_EveryRecordCountedOnce ==
  pc = "updated" => successCount + failCount + Len(finalSkipped) = Len(input)

\* the records provider q can report
Reportable(q) == UNION {RecordsOf(q, Catalog(q)[k]) : k \in 1..Len(Catalog(q))}

\* checkAllProviders run on this file returns record u when its provider
\* reports it
ReturnedFrom(file, u) ==
  KeepUpdate(u, getIgnoredPackages(file), getInstalledVersions(file))

\* C25: the installed-version override written after a successful update of a
\* package through provider P hides no record of another provider Q: every
\* record of Q that checkAllProviders returned before the write it still
\* returns after it, a record with the same id and newVersion included.
C25_OverrideOfOtherProvider ==
  [][\A i \in DOMAIN calls :
       calls[i].st = "reading" /\ i \notin DOMAIN calls' /\ cfgFile' # cfgFile =>
         \A q \in Registered \ {queue[i].update.provider} :
           \A u \in Reportable(q) :
             ReturnedFrom(cfgFile, u) => ReturnedFrom(cfgFile', u)]_vars

\* C26: at the moment a forced WinGet update fails unprivileged with gsudo
\* present on the host, the cached availability flag does not say that gsudo
\* is absent, so the update is retried with gsudo - also when an earlier
\* forced update of the same process probed while gsudo was absent.
C26_CacheNeverSkipsGsudo ==
  [][/\ wg.pc = "NOT_ATTEMPTED"
     /\ wg'.pc = "TRIED_UNPRIVILEGED"
     /\ ~wg'.success
     /\ wg'.force
     /\ hostGsudo
     => gsudoAvailable # "false"]_vars

\* ------------------------------------------------------------------------
\* config.ts in one process: loadConfig, toggleProvider, addIgnoredPackage
\* and removeIgnoredPackage called in any order on config.json.  The objects
\* { enabled } of DEFAULT_PROVIDERS are shared with every config whose
\* providers were filled from the defaults ({ ...DEFAULT_PROVIDERS } copies
\* the map, not its entries).
\* ------------------------------------------------------------------------
IgnoredLists == {<<>>, <<"a">>, <<"a", "a">>, <<"b", "a">>}

ConfigDisks ==
  {[kind |-> k] : k \in {"missing", "unparseable", "invalid"}}
    \cup {[kind |-> "valid",
           file |-> [providers |-> pr, ignoredPackages |-> ig,
                     installedVersions |-> EmptyMap]] :
            pr \in ProviderMaps, ig \in IgnoredLists}

\* loadConfig with the defaults as the process holds them
loadConfigWith(d, defaults) ==
  IF d.kind = "valid"
  THEN [providers |->
          [k \in (DOMAIN defaults) \cup (DOMAIN d.file.providers) |->
             IF k \in DOMAIN d.file.providers THEN d.file.providers[k]
             ELSE defaults[k]],
        ignoredPackages |-> d.file.ignoredPackages,
        installedVersions |-> d.file.installedVersions]
  ELSE [providers |-> defaults, ignoredPackages |-> <<>>,
        installedVersions |-> EmptyMap]

\* the ids whose entry in the loaded config is the object of DEFAULT_PROVIDERS
SharedWithDefaults(d) ==
  IF d.kind = "valid" THEN Registered \ DOMAIN d.file.providers ELSE Registered

\* config.providers[id] = { enabled } or config.providers[id].enabled = enabled
toggled(config, id, enabled) ==
  [config EXCEPT !.providers =
     [k \in (DOMAIN @) \cup {id} |-> IF k = id THEN enabled ELSE @[k]]]

\* saveConfig: the file written, or the file as it was when writeFile rejects
saveConfig(d, config, saved) ==
  IF saved THEN [kind |-> "valid", file |-> config] ELSE d

Outcome(op, id, threw, before, value) ==
  [done |-> TRUE, op |-> op, id |-> id, threw |-> threw, before |-> before,
   value |-> value]

InitConfig ==
  /\ MainIdle
  /\ diskFile \in ConfigDisks
  /\ defaultProviders = DEFAULT_PROVIDERS
  /\ arg = NoArg
  /\ result = NoResult
  /\ ua = NoUpdateAll
  /\ wg = NoWinget
  /\ gsudoAvailable = "null"
  /\ hostGsudo = FALSE

loadConfigRuns ==
  /\ LET config == loadConfigWith(diskFile, defaultProviders)
     IN result' = Outcome("loadConfig", "none", FALSE, config.ignoredPackages, config)
  /\ UNCHANGED <<mainVars, diskFile, defaultProviders, arg, ua, wg, gsudoAvailable,
                 hostGsudo>>

toggleProviderRuns ==
  \E id \in AllProviderIds, enabled \in BOOLEAN, saved \in BOOLEAN :
    LET config == loadConfigWith(diskFile, defaultProviders)
        changed == toggled(config, id, enabled)
    IN /\ defaultProviders' =
            IF id \in SharedWithDefaults(diskFile)
            THEN [defaultProviders EXCEPT ![id] = enabled]
            ELSE defaultProviders
       /\ diskFile' = saveConfig(diskFile, changed, saved)
       /\ result' = Outcome("toggleProvider", id, ~saved, config.ignoredPackages, changed)
       /\ UNCHANGED <<mainVars, arg, ua, wg, gsudoAvailable, hostGsudo>>

addIgnoredPackageRuns ==
  \E packageId \in PkgIds, saved \in BOOLEAN :
    LET config == loadConfigWith(diskFile, defaultProviders)
        changed == addIgnoredPackage(config, packageId)
        saves == changed # config
    IN /\ diskFile' = IF saves THEN saveConfig(diskFile, changed, saved) ELSE diskFile
       /\ result' = Outcome("addIgnoredPackage", packageId, saves /\ ~saved,
                            config.ignoredPackages, changed)
       /\ UNCHANGED <<mainVars, defaultProviders, arg, ua, wg, gsudoAvailable, hostGsudo>>

removeIgnoredPackageRuns ==
  \E packageId \in PkgIds, saved \in BOOLEAN :
    LET config == loadConfigWith(diskFile, defaultProviders)
        changed == removeIgnoredPackage(config, packageId)
        saves == changed # config
    IN /\ diskFile' = IF saves THEN saveConfig(diskFile, changed, saved) ELSE diskFile
       /\ result' = Outcome("removeIgnoredPackage", packageId, saves /\ ~saved,
                            config.ignoredPackages, changed)
       /\ UNCHANGED <<mainVars, defaultProviders, arg, ua, wg, gsudoAvailable, hostGsudo>>

NextConfig ==
  \/ loadConfigRuns
  \/ toggleProviderRuns
  \/ addIgnoredPackageRuns
  \/ removeIgnoredPackageRuns

SpecConfig == InitConfig /\ [][NextConfig]_vars

\* C27: whatever toggleProvider calls came before, a loadConfig that falls
\* back to the defaults returns every known provider with its original
\* default flag, and one that reads a valid file fills every known provider
\* absent from the file with its original default: DEFAULT_PROVIDERS is never
\* modified.
C27_DefaultsNeverModified ==
  result.done /\ result.op = "loadConfig" =>
    IF diskFile.kind = "valid"
    THEN \A id \in Registered \ DOMAIN diskFile.file.providers :
           result.value.providers[id] = DEFAULT_PROVIDERS[id]
    ELSE result.value.providers = DEFAULT_PROVIDERS

\* getIgnoredPackages() on the file as it is now
IgnoredNow == loadConfigWith(diskFile, defaultProviders).ignoredPackages

Completed(op) == result.done /\ result.op = op /\ ~result.threw

\* C28 as stated: for every persisted state the schema accepts, after
\* removeIgnoredPackage(id) completes id is not in getIgnoredPackages();
\* addIgnoredPackage(id) a second time changes nothing; and add followed by
\* remove of an id that was not ignored restores the original list.
C28_IgnoreListAsSet ==
  /\ Completed("removeIgnoredPackage") => ~Includes(IgnoredNow, result.id)
  /\ Completed("addIgnoredPackage") =>
       /\ Includes(IgnoredNow, result.id)
       /\ addIgnoredPackage(result.value, result.id) = result.value
       /\ ~Includes(result.before, result.id) =>
            removeIgnoredPackage(result.value, result.id).ignoredPackages
              = result.before

\* C30 as stated: whenever processing the payload raises inside
\* parseNpmJsonOutput (invalid JSON, a payload that is not an object, an
\* entry whose value is null), the returned list is empty, never the
\* records of the entries that came before the failing one.
C30_AllOrNothingOnFailure ==
  NpmReturned /\ TryBlock(arg.data).threw => result.value = <<>>

\* ------------------------------------------------------------------------
\* PnpmProvider.checkUpdates (pnpm.ts): stdout is one text, read as JSON by
\* parseNpmJsonOutput and, when that gives no record, line by line by
\* parsePnpmTableOutput. A JSON text is its payload written in one of three
\* layouts: compact (no white space, JSON.stringify(x)), indented (one member
\* per line, JSON.stringify(x, null, 2)) and spaced (one line, a space after
\* every colon and comma).
\* ------------------------------------------------------------------------
JsonLayouts == {"compact", "indented", "spaced"}

\* the white space a layout puts after an opening brace, a colon, a comma
\* and before a closing brace
Sep(layout, place) ==
  CASE layout = "compact" -> "glue"
    [] layout = "spaced" ->
         IF place \in {"colon", "comma"} THEN "space" ELSE "glue"
    [] layout = "indented" ->
         IF place = "colon" THEN "space" ELSE "newline"

Atom(text, after) == [text |-> text, after |-> after]

Quoted(text) == "\"" \o text \o "\""

RECURSIVE Joined(_, _)
Joined(items, layout) ==
  IF Len(items) = 1
  THEN LET item == items[1]
       IN [item EXCEPT ![Len(item)].after = Sep(layout, "close")]
  ELSE items[1] \o <<Atom(",", Sep(layout, "comma"))>>
         \o Joined(Tail(items), layout)

ObjectAtoms(items, layout) ==
  IF items = <<>> THEN <<Atom("{}", "glue")>>
  ELSE <<Atom("{", Sep(layout, "open"))>> \o Joined(items, layout)
         \o <<Atom("}", "glue")>>

Member(key, valueAtoms, layout) ==
  <<Atom(Quoted(key) \o ":", Sep(layout, "colon"))>> \o valueAtoms

FieldMembers(value, layout) ==
  (IF value.current.has
   THEN <<Member("current", <<Atom(Quoted(value.current.text), "glue")>>, layout)>>
   ELSE <<>>)
  \o (IF value.latest.has
      THEN <<Member("latest", <<Atom(Quoted(value.latest.text), "glue")>>, layout)>>
      ELSE <<>>)

ValueAtoms(value, layout) ==
  IF value.kind = "null" THEN <<Atom("null", "glue")>>
  ELSE ObjectAtoms(FieldMembers(value, layout), layout)

EntryMembers(entries, layout) ==
  [i \in 1..Len(entries) |->
     Member(entries[i].key, ValueAtoms(entries[i].value, layout), layout)]

\* the words of a text, line by line; the indentation of a line is white
\* space that neither trim() nor split(/\s+/) keeps
RECURSIVE TextLines(_, _, _)
TextLines(atoms, word, line) ==
  LET cell(w) == [text |-> w, gap |-> IF line = <<>> THEN 0 ELSE 1]
  IN IF atoms = <<>>
     THEN <<IF word = "" THEN line ELSE Append(line, cell(word))>>
     ELSE LET a == Head(atoms)
              w == word \o a.text
          IN CASE a.after = "glue" -> TextLines(Tail(atoms), w, line)
               [] a.after = "space" ->
                    TextLines(Tail(atoms), "", Append(line, cell(w)))
               [] a.after = "newline" ->
                    <<Append(line, cell(w))>> \o TextLines(Tail(atoms), "", <<>>)

\* stdout holding the JSON text of an object in a layout
JsonStdout(entries, layout) ==
  [data |-> [kind |-> "object", entries |-> entries],
   lines |-> TextLines(ObjectAtoms(EntryMembers(entries, layout), layout), "", <<>>)]

\* stdout holding a table, which JSON.parse rejects
TableStdout(lines) == [data |-> [kind |-> "invalid"], lines |-> lines]

PnpmHeader ==
  <<[text |-> "Package", gap |-> 0], [text |-> "Current", gap |-> 2],
    [text |-> "Wanted", gap |-> 2], [text |-> "Latest", gap |-> 2]>>

PnpmTexts ==
  {TableStdout(<<PnpmHeader, PnpmRow>>), TableStdout(<<PnpmHeader>>)}
    \cup {JsonStdout(e, layout) :
            e \in {x \in JsonEntries(MaxKeys) : DistinctKeys(x)},
            layout \in JsonLayouts}

PnpmCheckUpdates(run) ==
  IF run.stdout.empty THEN <<>>
  ELSE LET text == run.stdout.text
           json == parseNpmJsonOutput(text.data).value
           parsed == IF json = <<>> THEN parsePnpmTableOutput(text.lines)
                     ELSE json
       IN CreateUpdates("pnpm", parsed)

InitPnpm ==
  /\ MainIdle
  /\ diskFile = NoDisk
  /\ defaultProviders = DEFAULT_PROVIDERS
  /\ \E run \in CommandResults(PnpmTexts) :
       arg = [fn |-> "checkUpdates", provider |-> "pnpm", runs |-> <<run>>]
  /\ result = NoResult
  /\ ua = NoUpdateAll
  /\ wg = NoWinget
  /\ gsudoAvailable = "null"
  /\ hostGsudo = FALSE

pnpmCheckUpdatesReturns ==
  /\ arg.fn = "checkUpdates"
  /\ arg.provider = "pnpm"
  /\ ~result.done
  /\ result' = [done |-> TRUE, value |-> PnpmCheckUpdates(arg.runs[1])]
  /\ UNCHANGED <<mainVars, diskFile, defaultProviders, arg, ua, wg, gsudoAvailable, hostGsudo>>

NextPnpm == pnpmCheckUpdatesReturns

SpecPnpm == InitPnpm /\ [][NextPnpm]_vars

\* a valid JSON payload in which nothing is outdated: an object, empty or
\* with current equal to latest in every package
NothingOutdated(data) ==
  /\ data.kind = "object"
  /\ \A i \in 1..Len(data.entries) :
       LET pkg == data.entries[i].value
       IN /\ pkg.kind = "object"
          /\ pkg.current.has /\ pkg.latest.has
          /\ pkg.current.text = pkg.latest.text

\* C29: when pnpm's stdout is valid JSON in which nothing is outdated,
\* PnpmProvider.checkUpdates returns the empty list; the table parser makes
\* no record out of the text of a valid JSON payload.
C29_ValidJsonNeverTabulated ==
  /\ CheckUpdatesReturned
  /\ arg.provider = "pnpm"
  /\ ~arg.runs[1].stdout.empty
  /\ NothingOutdated(arg.runs[1].stdout.text.data)
  => result.value = <<>>

====
